---- MODULE Spec2Model ----
(***************************************************************************)
(* Game catalog reconciliation and library persistence of scummvm-gtk      *)
(* (src/src/scummvm_gtk/games.py, main.py).                                *)
(*                                                                         *)
(* JSON objects are functions whose DOMAIN is the set of keys present, so  *)
(* that dict.get(key, default), setdefault and pop are modelled as the     *)
(* code performs them.  Files are records [kind, doc]: kind "missing" (no  *)
(* file), "garbage" (json.load raises), "list" (parseable JSON whose top   *)
(* level is not an object) or "dict" (parseable JSON object doc).          *)
(***************************************************************************)
EXTENDS Integers, Sequences, FiniteSets, TLC

VARIABLES libraryFile, settingsFile, KNOWN_GAMES, clock, scan, call, window, exportFile,
          threads, idle, cacheFiles, hist

vars == <<libraryFile, settingsFile, KNOWN_GAMES, clock, scan, call, window, exportFile,
         threads, idle, cacheFiles, hist>>

(***************************************************************************)
(* Bounds                                                                  *)
(***************************************************************************)
\* number of entries of the static catalog that are modelled
NumKnown == 2
\* largest value of the wall clock (time.time()) in the model
MaxTime == 3

(***************************************************************************)
(* Python dict helpers                                                     *)
(***************************************************************************)
EmptyDict == <<>>

\* d.get(k, default)
Get(d, k, default) == IF k \in DOMAIN d THEN d[k] ELSE default

\* d[k] = v
Put(d, k, v) == (k :> v) @@ d

\* d.pop(k, ...) : the dict without key k
Pop(d, k) == [x \in DOMAIN d \ {k} |-> d[x]]

Min(a, b) == IF a < b THEN a ELSE b

(***************************************************************************)
(* class Game                                                              *)
(***************************************************************************)
\* Game.__init__ : icon_name defaults to game_id, wiki_title to name, and the
\* runtime fields start at False / 0 / 0
Game(game_id, name, engine, description, year, company, platform, path, icon_name, installed, genre, compatibility, wiki_title) ==
  [game_id |-> game_id, name |-> name, engine |-> engine,
   description |-> description, year |-> year, company |-> company,
   platform |-> platform, path |-> path,
   icon_name |-> IF icon_name = "" THEN game_id ELSE icon_name,
   installed |-> installed, genre |-> genre,
   compatibility |-> compatibility,
   wiki_title |-> IF wiki_title = "" THEN name ELSE wiki_title,
   favorite |-> FALSE, last_played |-> 0, total_play_time |-> 0]

\* the descriptive fields of a record (everything but identity, install state
\* and the runtime fields)
DescriptiveFields ==
  {"name", "engine", "description", "year", "company", "platform", "genre",
   "compatibility", "wiki_title", "icon_name"}

\* Game.to_dict
to_dict(g) ==
  [game_id |-> g.game_id, name |-> g.name, engine |-> g.engine,
   description |-> g.description, year |-> g.year, company |-> g.company,
   platform |-> g.platform, path |-> g.path, icon_name |-> g.icon_name,
   installed |-> g.installed, genre |-> g.genre,
   compatibility |-> g.compatibility, wiki_title |-> g.wiki_title]

\* Game.from_dict raises TypeError when a required constructor argument
\* (game_id, name) is not among the keys
from_dict_raises(d) == ~ ({"game_id", "name"} \subseteq DOMAIN d)

\* Game.from_dict, for a dict on which it does not raise
from_dict(d) ==
  Game(d["game_id"], d["name"], Get(d, "engine", ""),
       Get(d, "description", ""), Get(d, "year", ""), Get(d, "company", ""),
       Get(d, "platform", ""), Get(d, "path", ""), Get(d, "icon_name", ""),
       Get(d, "installed", FALSE), Get(d, "genre", ""),
       Get(d, "compatibility", ""), Get(d, "wiki_title", ""))

(***************************************************************************)
(* KNOWN_GAMES : the static catalog (the modelled entries of it)           *)
(***************************************************************************)
AllKnown ==
  << Game("monkey", "The Secret of Monkey Island", "scumm",
          "A young man named Guybrush Threepwood arrives on Melee Island.",
          "1990", "LucasArts", "DOS/Amiga/FM-Towns", "", "", FALSE,
          "Adventure", "Excellent", "The Secret of Monkey Island"),
     Game("dig", "The Dig", "scumm",
          "An asteroid threatens Earth.",
          "1995", "LucasArts", "DOS", "", "", FALSE,
          "Adventure", "Excellent", "The Dig (video game)"),
     Game("agi-fanmade", "AGI Fan Games", "agi",
          "Fan-made games using the AGI engine.",
          "", "Various", "DOS", "", "", FALSE,
          "Adventure", "Good", ""),
     Game("myst", "Myst", "mohawk",
          "Explore the mysterious island of Myst and unravel its secrets.",
          "1993", "Cyan", "Mac/Windows", "", "", FALSE,
          "Puzzle", "Good", "Myst") >>

\* the catalog as it is when the module has been imported
KnownGamesInit == SubSeq(AllKnown, 1, Min(NumKnown, Len(AllKnown)))

StaticIds == {KnownGamesInit[i].game_id : i \in 1..Len(KnownGamesInit)}

(***************************************************************************)
(* String order of the names that occur (Python compares by code point)    *)
(***************************************************************************)
NameOrder ==
  << "", "AGI Fan Games", "DIG", "My Dig", "My Game", "My game", "Myst", "Other", "The Dig",
     "The Dig (CD/DOS)", "The Secret of Monkey Island", "mygame" >>

NameOrd(n) == CHOOSE i \in 1..Len(NameOrder) : NameOrder[i] = n

\* sorted(seq, key=lambda g: g.name) : stable insertion by name
RECURSIVE InsertByName(_, _)
InsertByName(s, g) ==
  IF s = << >> THEN << g >>
  ELSE IF NameOrd(s[Len(s)].name) <= NameOrd(g.name) THEN Append(s, g)
  ELSE Append(InsertByName(SubSeq(s, 1, Len(s) - 1), g), s[Len(s)])

RECURSIVE SortedByName(_)
SortedByName(s) ==
  IF s = << >> THEN << >>
  ELSE InsertByName(SortedByName(SubSeq(s, 1, Len(s) - 1)), s[Len(s)])

(***************************************************************************)
(* Files                                                                   *)
(***************************************************************************)
MissingFile == [kind |-> "missing", doc |-> EmptyDict]
GarbageFile == [kind |-> "garbage", doc |-> EmptyDict]
ListFile == [kind |-> "list", doc |-> EmptyDict]
DictFile(d) == [kind |-> "dict", doc |-> d]

DefaultLibrary == [games |-> EmptyDict, custom_games |-> << >>]

\* load_library without the try/except around json.load
load_library_Unguarded(file) ==
  IF file.kind \in {"dict", "list"}
  THEN [raised |-> FALSE, kind |-> file.kind, doc |-> file.doc]
  ELSE IF file.kind = "garbage"
  THEN [raised |-> TRUE, kind |-> "dict", doc |-> EmptyDict]
  ELSE [raised |-> FALSE, kind |-> "dict", doc |-> DefaultLibrary]

\* load_library : the parsed JSON value when the file exists and parses,
\* the default document otherwise; json.load's exception is swallowed
load_library(file) ==
  IF file.kind \in {"dict", "list"}
  THEN [raised |-> FALSE, kind |-> file.kind, doc |-> file.doc]
  ELSE [raised |-> FALSE, kind |-> "dict", doc |-> DefaultLibrary]

\* save_library : whole-document overwrite
save_library(lib) == DictFile(lib)

DefaultSettings ==
  [sort_by |-> "name_asc", launch_mode |-> "windowed", scummvm_path |-> "scummvm",
   show_installed_only |-> FALSE, favorites_first |-> TRUE]

\* load_settings : the parsed JSON value as it is when the file exists and
\* parses, the default document otherwise
load_settings(file) ==
  IF file.kind \in {"dict", "list"}
  THEN [raised |-> FALSE, kind |-> file.kind, doc |-> file.doc]
  ELSE [raised |-> FALSE, kind |-> "dict", doc |-> DefaultSettings]

\* save_settings : whole-document overwrite
save_settings(s) == DictFile(s)

(***************************************************************************)
(* Installed-game prober                                                   *)
(*                                                                         *)
(* The outcome of subprocess.run is proc = [kind, stdout]: kind "ok"       *)
(* (exit 0), "nonzero", "notfound" (FileNotFoundError) or "timeout"        *)
(* (TimeoutExpired).  stdout is the sequence of its lines, a line being    *)
(* the sequence of its whitespace-separated tokens (line.split()).         *)
(***************************************************************************)
\* stdout.strip() : leading and trailing blank lines disappear
RECURSIVE StripLines(_)
StripLines(ls) ==
  IF ls = << >> THEN << >>
  ELSE IF Head(ls) = << >> THEN StripLines(Tail(ls))
  ELSE IF ls[Len(ls)] = << >> THEN StripLines(SubSeq(ls, 1, Len(ls) - 1))
  ELSE ls

\* ' '.join(tokens)
RECURSIVE Join(_)
Join(tokens) ==
  IF tokens = << >> THEN ""
  ELSE IF Len(tokens) = 1 THEN tokens[1]
  ELSE tokens[1] \o " " \o Join(Tail(tokens))

\* the Game built from one output line
ProbedGame(parts) ==
  Game(parts[1], Join(Tail(parts)), "", "", "", "", "", "", "", TRUE, "", "", "")

RECURSIVE ParseTargets(_)
ParseTargets(ls) ==
  IF ls = << >> THEN << >>
  ELSE IF Len(Head(ls)) >= 2
       THEN << ProbedGame(Head(ls)) >> \o ParseTargets(Tail(ls))
       ELSE ParseTargets(Tail(ls))

\* detect_installed_games that takes one line for the header
detect_installed_games_SkipsOne(proc) ==
  IF proc.kind = "ok"
  THEN LET ls == StripLines(proc.stdout)
       IN ParseTargets(SubSeq(ls, 2, Len(ls)))
  ELSE << >>

\* detect_installed_games : FileNotFoundError and TimeoutExpired are caught,
\* a non-zero exit yields no games
detect_installed_games(proc) ==
  IF proc.kind = "ok"
  THEN LET ls == StripLines(proc.stdout)
       IN ParseTargets(SubSeq(ls, 3, Len(ls)))
  ELSE << >>

(***************************************************************************)
(* Catalog reconciler : get_all_games                                      *)
(*                                                                         *)
(* `known` is the dict of get_all_games in insertion order.  Its first     *)
(* Len(KNOWN_GAMES) values are the Game objects of KNOWN_GAMES themselves  *)
(* (the comprehension stores references), so what the function assigns to  *)
(* them is assigned to the catalog.                                        *)
(***************************************************************************)
IdsOf(s) == {s[i].game_id : i \in 1..Len(s)}

IndexOf(s, gid) == CHOOSE i \in 1..Len(s) : s[i].game_id = gid

\* AddCustomOne without the "gid not in known" test
AddCustomOne_NoMembershipTest(known, cg) ==
  LET gid == Get(cg, "game_id", "")
  IN IF gid # "" THEN Append(known, from_dict(cg)) ELSE known

\* one iteration of "for cg in lib.get('custom_games', [])"
AddCustomOne(known, cg) ==
  LET gid == Get(cg, "game_id", "")
  IN IF gid # "" /\ gid \notin IdsOf(known)
     THEN Append(known, from_dict(cg))
     ELSE known

\* the iteration raises when from_dict is reached and raises
AddCustomOneRaises(known, cg) ==
  LET gid == Get(cg, "game_id", "")
  IN gid # "" /\ gid \notin IdsOf(known) /\ from_dict_raises(cg)

RECURSIVE AddCustom(_, _)
AddCustom(known, cgs) ==
  IF cgs = << >> THEN [raised |-> FALSE, known |-> known]
  ELSE IF AddCustomOneRaises(known, Head(cgs))
       THEN [raised |-> TRUE, known |-> known]
       ELSE AddCustom(AddCustomOne(known, Head(cgs)), Tail(cgs))

\* MergeInstalledOne storing the prober's record in place of the known one
MergeInstalledOne_Replaces(known, g) ==
  IF g.game_id \in IdsOf(known)
  THEN [known EXCEPT ![IndexOf(known, g.game_id)] = g]
  ELSE Append(known, g)

\* one iteration of "for g in installed"
MergeInstalledOne(known, g) ==
  IF g.game_id \in IdsOf(known)
  THEN [known EXCEPT ![IndexOf(known, g.game_id)] =
          [@ EXCEPT !.installed = TRUE, !.path = g.path]]
  ELSE Append(known, g)

RECURSIVE MergeInstalled(_, _)
MergeInstalled(known, installed) ==
  IF installed = << >> THEN known
  ELSE MergeInstalled(MergeInstalledOne(known, Head(installed)),
                      Tail(installed))

\* ApplyLibraryOne reading total_play_time from the last_played key
ApplyLibraryOne_WrongKey(game, game_data) ==
  LET gd == Get(game_data, game.game_id, EmptyDict)
  IN [game EXCEPT !.favorite = Get(gd, "favorite", FALSE),
                  !.last_played = Get(gd, "last_played", 0),
                  !.total_play_time = Get(gd, "last_played", 0)]

\* one iteration of "for gid, game in known.items()"
ApplyLibraryOne(game, game_data) ==
  LET gd == Get(game_data, game.game_id, EmptyDict)
  IN [game EXCEPT !.favorite = Get(gd, "favorite", FALSE),
                  !.last_played = Get(gd, "last_played", 0),
                  !.total_play_time = Get(gd, "total_play_time", 0)]

ApplyLibrary(known, game_data) ==
  [i \in 1..Len(known) |-> ApplyLibraryOne(known[i], game_data)]

\* get_all_games(scummvm_path) run on catalog known0, library file `file`
\* and prober outcome proc: whether it raised, the returned list, and the
\* values of `known` when it stopped
get_all_games(known0, file, proc) ==
  LET lib == load_library(file)
  IN IF lib.raised \/ lib.kind # "dict"
     THEN [raised |-> TRUE, games |-> << >>, known |-> known0]
     ELSE LET game_data == Get(lib.doc, "games", EmptyDict)
              c == AddCustom(known0, Get(lib.doc, "custom_games", << >>))
          IN IF c.raised
             THEN [raised |-> TRUE, games |-> << >>, known |-> c.known]
             ELSE LET m == MergeInstalled(c.known, detect_installed_games(proc))
                      a == ApplyLibrary(m, game_data)
                  IN [raised |-> FALSE, games |-> SortedByName(a), known |-> a]

(***************************************************************************)
(* Favorites and play-time tracking                                        *)
(*                                                                         *)
(* Each operator gives, for the library file before the call, whether the  *)
(* call raised (a top level that is no object has no get / setdefault),    *)
(* the file after it and the returned value.                               *)
(***************************************************************************)
\* the library document with entry gd stored under games[game_id]
WithEntry(doc, game_id, gd) ==
  Put(doc, "games", Put(Get(doc, "games", EmptyDict), game_id, gd))

\* the entry games.setdefault(game_id, {}) yields after
\* lib.setdefault("games", {}): the stored one, or a new empty one
EntryOf(doc, game_id) == Get(Get(doc, "games", EmptyDict), game_id, EmptyDict)

is_favorite(file, game_id) ==
  LET lib == load_library(file)
  IN IF lib.raised \/ lib.kind # "dict"
     THEN [raised |-> TRUE, file |-> file, ret |-> FALSE]
     ELSE [raised |-> FALSE, file |-> file,
           ret |-> Get(EntryOf(lib.doc, game_id), "favorite", FALSE)]

\* toggle_favorite that sets the flag instead of flipping it
toggle_favorite_AlwaysSets(file, game_id) ==
  LET lib == load_library(file)
  IN IF lib.raised \/ lib.kind # "dict"
     THEN [raised |-> TRUE, file |-> file, ret |-> FALSE]
     ELSE [raised |-> FALSE,
           file |-> save_library(WithEntry(lib.doc, game_id,
                      Put(EntryOf(lib.doc, game_id), "favorite", TRUE))),
           ret |-> TRUE]

\* toggle_favorite storing a fresh entry that holds the flag only
toggle_favorite_FreshEntry(file, game_id) ==
  LET lib == load_library(file)
  IN IF lib.raised \/ lib.kind # "dict"
     THEN [raised |-> TRUE, file |-> file, ret |-> FALSE]
     ELSE LET fav == ~ Get(EntryOf(lib.doc, game_id), "favorite", FALSE)
          IN [raised |-> FALSE,
              file |-> save_library(WithEntry(lib.doc, game_id, [favorite |-> fav])),
              ret |-> fav]

toggle_favorite(file, game_id) ==
  LET lib == load_library(file)
  IN IF lib.raised \/ lib.kind # "dict"
     THEN [raised |-> TRUE, file |-> file, ret |-> FALSE]
     ELSE LET gd == EntryOf(lib.doc, game_id)
              fav == ~ Get(gd, "favorite", FALSE)
          IN [raised |-> FALSE,
              file |-> save_library(WithEntry(lib.doc, game_id, Put(gd, "favorite", fav))),
              ret |-> fav]

\* record_play_start, `now` being the value of time.time()
record_play_start(file, game_id, now) ==
  LET lib == load_library(file)
  IN IF lib.raised \/ lib.kind # "dict"
     THEN [raised |-> TRUE, file |-> file, ret |-> FALSE]
     ELSE [raised |-> FALSE,
           file |-> save_library(WithEntry(lib.doc, game_id,
                      Put(EntryOf(lib.doc, game_id), "play_start", now))),
           ret |-> FALSE]

\* record_play_end reading play_start with get instead of pop
record_play_end_KeepsStart(file, game_id, now1, now2) ==
  LET lib == load_library(file)
  IN IF lib.raised \/ lib.kind # "dict"
     THEN [raised |-> TRUE, file |-> file, ret |-> FALSE]
     ELSE LET gd == EntryOf(lib.doc, game_id)
              start == Get(gd, "play_start", 0)
              gd2 == IF start # 0
                     THEN Put(gd, "total_play_time",
                              Get(gd, "total_play_time", 0) + (now1 - start))
                     ELSE gd
          IN [raised |-> FALSE,
              file |-> save_library(WithEntry(lib.doc, game_id, Put(gd2, "last_played", now2))),
              ret |-> FALSE]

\* record_play_end with the last_played assignment inside "if start:"
record_play_end_OnlyWithStart(file, game_id, now1, now2) ==
  LET lib == load_library(file)
  IN IF lib.raised \/ lib.kind # "dict"
     THEN [raised |-> TRUE, file |-> file, ret |-> FALSE]
     ELSE LET gd == EntryOf(lib.doc, game_id)
              start == Get(gd, "play_start", 0)
              gd1 == Pop(gd, "play_start")
              gd2 == IF start # 0
                     THEN Put(Put(gd1, "total_play_time",
                                  Get(gd1, "total_play_time", 0) + (now1 - start)),
                              "last_played", now2)
                     ELSE gd1
          IN [raised |-> FALSE,
              file |-> save_library(WithEntry(lib.doc, game_id, gd2)),
              ret |-> FALSE]

\* record_play_end, now1 and now2 being the values of its two calls of
\* time.time() (the elapsed time, then last_played)
record_play_end(file, game_id, now1, now2) ==
  LET lib == load_library(file)
  IN IF lib.raised \/ lib.kind # "dict"
     THEN [raised |-> TRUE, file |-> file, ret |-> FALSE]
     ELSE LET gd == EntryOf(lib.doc, game_id)
              start == Get(gd, "play_start", 0)
              gd1 == Pop(gd, "play_start")
              gd2 == IF start # 0
                     THEN Put(gd1, "total_play_time",
                              Get(gd1, "total_play_time", 0) + (now1 - start))
                     ELSE gd1
          IN [raised |-> FALSE,
              file |-> save_library(WithEntry(lib.doc, game_id, Put(gd2, "last_played", now2))),
              ret |-> FALSE]

(***************************************************************************)
(* Text                                                                    *)
(*                                                                         *)
(* The string operations of the view pipeline (lower, strip, "in", <) work *)
(* on the characters of a string: CharsTable gives the characters of every *)
(* string that occurs in the view, CharCode their code points.             *)
(***************************************************************************)
CharsTable ==
  ("" :> <<  >>) @@
  ("Unknown" :> << "U", "n", "k", "n", "o", "w", "n" >>) @@
  ("9999" :> << "9", "9", "9", "9" >>) @@
  ("0000" :> << "0", "0", "0", "0" >>) @@
  ("samnmax" :> << "s", "a", "m", "n", "m", "a", "x" >>) @@
  ("Sam & Max Hit the Road" :> << "S", "a", "m", " ", "&", " ", "M", "a", "x", " ", "H", "i", "t", " ", "t", "h", "e", " ", "R", "o", "a", "d" >>) @@
  ("scumm" :> << "s", "c", "u", "m", "m" >>) @@
  ("1993" :> << "1", "9", "9", "3" >>) @@
  ("LucasArts" :> << "L", "u", "c", "a", "s", "A", "r", "t", "s" >>) @@
  ("Adventure" :> << "A", "d", "v", "e", "n", "t", "u", "r", "e" >>) @@
  ("dig" :> << "d", "i", "g" >>) @@
  ("The Dig" :> << "T", "h", "e", " ", "D", "i", "g" >>) @@
  ("1995" :> << "1", "9", "9", "5" >>) @@
  ("agi-fanmade" :> << "a", "g", "i", "-", "f", "a", "n", "m", "a", "d", "e" >>) @@
  ("AGI Fan Games" :> << "A", "G", "I", " ", "F", "a", "n", " ", "G", "a", "m", "e", "s" >>) @@
  ("agi" :> << "a", "g", "i" >>) @@
  ("Various" :> << "V", "a", "r", "i", "o", "u", "s" >>) @@
  ("myst" :> << "m", "y", "s", "t" >>) @@
  ("Myst" :> << "M", "y", "s", "t" >>) @@
  ("mohawk" :> << "m", "o", "h", "a", "w", "k" >>) @@
  ("Cyan" :> << "C", "y", "a", "n" >>) @@
  ("Puzzle" :> << "P", "u", "z", "z", "l", "e" >>) @@
  ("my_game" :> << "m", "y", "_", "g", "a", "m", "e" >>) @@
  ("the dig" :> << "t", "h", "e", " ", "d", "i", "g" >>) @@
  ("maniac" :> << "m", "a", "n", "i", "a", "c" >>) @@
  ("Maniac Mansion" :> << "M", "a", "n", "i", "a", "c", " ", "M", "a", "n", "s", "i", "o", "n" >>) @@
  ("1987" :> << "1", "9", "8", "7" >>) @@
  ("bass" :> << "b", "a", "s", "s" >>) @@
  ("Beneath a Steel Sky (Remastered)" :> << "B", "e", "n", "e", "a", "t", "h", " ", "a", " ", "S", "t", "e", "e", "l", " ", "S", "k", "y", " ", "(", "R", "e", "m", "a", "s", "t", "e", "r", "e", "d", ")" >>) @@
  ("sky" :> << "s", "k", "y" >>) @@
  ("2009" :> << "2", "0", "0", "9" >>) @@
  ("Revolution" :> << "R", "e", "v", "o", "l", "u", "t", "i", "o", "n" >>) @@
  ("   " :> << " ", " ", " " >>) @@
  (" Max " :> << " ", "M", "a", "x", " " >>) @@
  ("lucasarts" :> << "l", "u", "c", "a", "s", "a", "r", "t", "s" >>) @@
  ("DIG" :> << "D", "I", "G" >>) @@
  ("puzzle" :> << "p", "u", "z", "z", "l", "e" >>) @@
  ("RPG" :> << "R", "P", "G" >>) @@
  ("My Dig" :> << "M", "y", " ", "D", "i", "g" >>) @@
  ("My Game" :> << "M", "y", " ", "G", "a", "m", "e" >>) @@
  ("Other" :> << "O", "t", "h", "e", "r" >>) @@
  ("The Dig (CD/DOS)" :> << "T", "h", "e", " ", "D", "i", "g", " ", "(", "C", "D", "/", "D", "O", "S", ")" >>) @@
  ("The Secret of Monkey Island" :> << "T", "h", "e", " ", "S", "e", "c", "r", "e", "t", " ", "o", "f", " ", "M", "o", "n", "k", "e", "y", " ", "I", "s", "l", "a", "n", "d" >>) @@
  ("mygame" :> << "m", "y", "g", "a", "m", "e" >>) @@
  ("monkey" :> << "m", "o", "n", "k", "e", "y" >>) @@
  ("My game" :> << "M", "y", " ", "g", "a", "m", "e" >>) @@
  ("the_dig" :> << "t", "h", "e", "_", "d", "i", "g" >>) @@
  ("The_Dig" :> << "T", "h", "e", "_", "D", "i", "g" >>) @@
  ("The_Dig_(CD_DOS)" :> << "T", "h", "e", "_", "D", "i", "g", "_", "(", "C", "D", "_", "D", "O", "S", ")" >>)

Chars(str) == CharsTable[str]

CharCode ==
  (" " :> 32) @@ ("&" :> 38) @@ ("(" :> 40) @@ (")" :> 41) @@ ("-" :> 45) @@
  ("/" :> 47) @@ ("0" :> 48) @@ ("1" :> 49) @@ ("2" :> 50) @@ ("3" :> 51) @@
  ("5" :> 53) @@ ("7" :> 55) @@ ("8" :> 56) @@ ("9" :> 57) @@ ("A" :> 65) @@
  ("B" :> 66) @@ ("C" :> 67) @@ ("D" :> 68) @@ ("F" :> 70) @@ ("G" :> 71) @@
  ("H" :> 72) @@ ("I" :> 73) @@ ("L" :> 76) @@ ("M" :> 77) @@ ("O" :> 79) @@
  ("P" :> 80) @@ ("R" :> 82) @@ ("S" :> 83) @@ ("T" :> 84) @@ ("U" :> 85) @@
  ("V" :> 86) @@ ("_" :> 95) @@ ("a" :> 97) @@ ("b" :> 98) @@ ("c" :> 99) @@
  ("d" :> 100) @@ ("e" :> 101) @@ ("f" :> 102) @@ ("g" :> 103) @@
  ("h" :> 104) @@ ("i" :> 105) @@ ("k" :> 107) @@ ("l" :> 108) @@
  ("m" :> 109) @@ ("n" :> 110) @@ ("o" :> 111) @@ ("p" :> 112) @@
  ("r" :> 114) @@ ("s" :> 115) @@ ("t" :> 116) @@ ("u" :> 117) @@
  ("v" :> 118) @@ ("w" :> 119) @@ ("x" :> 120) @@ ("y" :> 121) @@
  ("z" :> 122)

\* one character of str.lower() (the strings of the model are ASCII)
LowerChar(c) ==
  IF CharCode[c] >= 65 /\ CharCode[c] <= 90
  THEN CHOOSE d \in DOMAIN CharCode : CharCode[d] = CharCode[c] + 32
  ELSE c

\* str.lower()
Lower(cs) == [i \in 1..Len(cs) |-> LowerChar(cs[i])]

\* str.strip() : leading and trailing blanks removed
RECURSIVE Strip(_)
Strip(cs) ==
  IF cs = << >> THEN << >>
  ELSE IF Head(cs) = " " THEN Strip(Tail(cs))
  ELSE IF cs[Len(cs)] = " " THEN Strip(SubSeq(cs, 1, Len(cs) - 1))
  ELSE cs

\* q in cs
Contains(cs, q) ==
  \E i \in 0..(Len(cs) - Len(q)) : SubSeq(cs, i + 1, i + Len(q)) = q

\* a < b for strings : by code point, a proper prefix first
RECURSIVE StrLess(_, _)
StrLess(a, b) ==
  IF b = << >> THEN FALSE
  ELSE IF a = << >> THEN TRUE
  ELSE IF CharCode[Head(a)] # CharCode[Head(b)]
       THEN CharCode[Head(a)] < CharCode[Head(b)]
       ELSE StrLess(Tail(a), Tail(b))

(***************************************************************************)
(* Sorting : sort_games                                                    *)
(***************************************************************************)
SortKeys ==
  {"name_asc", "name_desc", "year_asc", "year_desc", "developer_asc", "engine_asc"}

\* _key of sort_games with the missing year of year_desc read as "9999"
SortKeyOf_MissingYearHigh(g, sort_key) ==
  IF sort_key \in {"name_asc", "name_desc"} THEN Lower(Chars(g.name))
  ELSE IF sort_key \in {"year_asc", "year_desc"}
       THEN (IF g.year = "" THEN Chars("9999") ELSE Chars(g.year))
  ELSE IF sort_key = "developer_asc" THEN Lower(Chars(g.company))
  ELSE IF sort_key = "engine_asc" THEN Lower(Chars(g.engine))
  ELSE Lower(Chars(g.name))

\* _key of sort_games
SortKeyOf(g, sort_key) ==
  IF sort_key \in {"name_asc", "name_desc"} THEN Lower(Chars(g.name))
  ELSE IF sort_key = "year_asc"
       THEN (IF g.year = "" THEN Chars("9999") ELSE Chars(g.year))
  ELSE IF sort_key = "year_desc"
       THEN (IF g.year = "" THEN Chars("0000") ELSE Chars(g.year))
  ELSE IF sort_key = "developer_asc" THEN Lower(Chars(g.company))
  ELSE IF sort_key = "engine_asc" THEN Lower(Chars(g.engine))
  ELSE Lower(Chars(g.name))

\* insertion of g into a list sorted by key: behind every element that does
\* not come after it (ascending: key <= key of g; reverse: key >= key of g)
RECURSIVE InsertByKey(_, _, _, _)
InsertByKey(s, g, sort_key, reverse) ==
  IF s = << >> THEN << g >>
  ELSE LET last == s[Len(s)]
           after == IF reverse
                    THEN StrLess(SortKeyOf(last, sort_key), SortKeyOf(g, sort_key))
                    ELSE StrLess(SortKeyOf(g, sort_key), SortKeyOf(last, sort_key))
       IN IF after
          THEN Append(InsertByKey(SubSeq(s, 1, Len(s) - 1), g, sort_key, reverse), last)
          ELSE Append(s, g)

RECURSIVE ReverseSeq(_)
ReverseSeq(s) ==
  IF s = << >> THEN << >>
  ELSE Append(ReverseSeq(Tail(s)), Head(s))

RECURSIVE SortedAscending(_, _)
SortedAscending(games, sort_key) ==
  IF games = << >> THEN << >>
  ELSE InsertByKey(SortedAscending(SubSeq(games, 1, Len(games) - 1), sort_key),
                   games[Len(games)], sort_key, FALSE)

\* a descending sort done as the ascending sort read backwards
SortedBy_ReversedAscending(games, sort_key, reverse) ==
  IF reverse THEN ReverseSeq(SortedAscending(games, sort_key))
  ELSE SortedAscending(games, sort_key)

\* sorted(games, key=_key, reverse=reverse) : stable in both directions
RECURSIVE SortedBy(_, _, _)
SortedBy(games, sort_key, reverse) ==
  IF games = << >> THEN << >>
  ELSE InsertByKey(SortedBy(SubSeq(games, 1, Len(games) - 1), sort_key, reverse),
                   games[Len(games)], sort_key, reverse)

\* [g for g in result if keep(g)]
RECURSIVE SelectGames(_, _)
SelectGames(s, keep) ==
  IF s = << >> THEN << >>
  ELSE IF keep[Head(s).game_id] THEN << Head(s) >> \o SelectGames(Tail(s), keep)
  ELSE SelectGames(Tail(s), keep)

\* favs + non_favs, given per id whether the game is a favorite
Partition(result, fav) ==
  SelectGames(result, fav) \o SelectGames(result, [id \in DOMAIN fav |-> ~ fav[id]])

\* favs + non_favs read off the records' favorite field
FavoritesFirst_RecordFlag(result, file) ==
  Partition(result, [id \in IdsOf(result) |-> result[IndexOf(result, id)].favorite])

\* favs + non_favs, each game asked of is_favorite (which loads library.json)
FavoritesFirst(result, file) ==
  Partition(result, [id \in IdsOf(result) |-> is_favorite(file, id).ret])

\* the second half of sort_games, `result` being the sorted list:
\* is_favorite raises on a library whose top level is no object
WithFavoritesFirst(result, favorites_first, file) ==
  IF ~ favorites_first
  THEN [raised |-> FALSE, ret |-> result]
  ELSE IF result # << >> /\ is_favorite(file, result[1].game_id).raised
  THEN [raised |-> TRUE, ret |-> << >>]
  ELSE [raised |-> FALSE, ret |-> FavoritesFirst(result, file)]

\* sort_games(games, sort_key, favorites_first) with library file `file`
sort_games(games, sort_key, favorites_first, file) ==
  WithFavoritesFirst(SortedBy(games, sort_key, sort_key \in {"name_desc", "year_desc"}),
                     favorites_first, file)

(***************************************************************************)
(* The main window : filtering, sorting, grouping                          *)
(***************************************************************************)
\* gettext.gettext with no message catalog installed returns the message
gettext(message) == message

\* MainWindow.__init__ : the fields the view pipeline reads, the text of the
\* search entry, and grid_container as the sequence of its flow boxes, each
\* with the engine name of its header ("" for the one box without header).
\* (With a settings.json whose top level is a list the constructor raises
\* at .get and there is no window; the record then stands for none.)
NewWindow(settings) ==
  [_games |-> << >>, _filtered_games |-> << >>,
   _show_installed_only |-> FALSE,
   _current_sort |-> IF load_settings(settings).kind = "dict"
                     THEN Get(load_settings(settings).doc, "default_sort", "name_asc")
                     ELSE "name_asc",
   _current_genre_filter |-> "",
   _group_by_engine |-> FALSE,
   _favorites_first |-> FALSE,
   search_text |-> "",
   grid_container |-> << >>]

\* query in the lower-cased name, id, company, engine or genre of g
MatchesQuery(g, query) ==
  \/ Contains(Lower(Chars(g.name)), query)
  \/ Contains(Lower(Chars(g.game_id)), query)
  \/ Contains(Lower(Chars(g.company)), query)
  \/ Contains(Lower(Chars(g.engine)), query)
  \/ Contains(Lower(Chars(g.genre)), query)

\* the search test of _apply_filters_and_sort with the query left as typed
MatchesSearch_CaseSensitive(g, text) == MatchesQuery(g, Strip(Chars(text)))

\* the search test of _apply_filters_and_sort, query = text.lower().strip()
MatchesSearch(g, text) == MatchesQuery(g, Strip(Lower(Chars(text))))

\* [g for g in games if g.installed], when installed-only is on
FilterInstalled(games, on) ==
  IF on
  THEN SelectGames(games, [id \in IdsOf(games) |-> games[IndexOf(games, id)].installed])
  ELSE games

\* [g for g in games if g.genre == genre], when a genre is selected
FilterGenre(games, genre) ==
  IF genre # ""
  THEN SelectGames(games, [id \in IdsOf(games) |-> games[IndexOf(games, id)].genre = genre])
  ELSE games

\* the games that match the search, when the query is not empty
FilterSearch(games, text) ==
  IF Strip(Lower(Chars(text))) # << >>
  THEN SelectGames(games, [id \in IdsOf(games) |->
                             MatchesSearch(games[IndexOf(games, id)], text)])
  ELSE games

\* the three filters of _apply_filters_and_sort, in their order
FilterGames(w) ==
  FilterSearch(FilterGenre(FilterInstalled(w._games, w._show_installed_only),
                           w._current_genre_filter),
               w.search_text)

\* the engine field taken as the label, empty or not
EngineLabel_NoUnknown(g) == g.engine

\* eng = g.engine or _("Unknown")
EngineLabel(g) == IF g.engine = "" THEN gettext("Unknown") ELSE g.engine

\* sorted(groups.keys()) : the labels in ascending string order
RECURSIVE SortedLabels(_)
SortedLabels(labels) ==
  IF labels = {} THEN << >>
  ELSE LET first == CHOOSE a \in labels :
                      \A b \in labels \ {a} : StrLess(Chars(a), Chars(b))
       IN << first >> \o SortedLabels(labels \ {first})

\* _populate : one flow box with a card per game
populate(games) == << [header |-> "", games |-> games] >>

\* the flow boxes of _populate_grouped, `labels` being the sorted labels
GroupBoxes(games, labels) ==
  [k \in 1..Len(labels) |->
     [header |-> labels[k],
      games |-> SelectGames(games,
                  [id \in IdsOf(games) |->
                     EngineLabel(games[IndexOf(games, id)]) = labels[k]])]]

\* _populate_grouped : per engine label, in sorted order, a header and a flow
\* box with the games of that label in the order of `games`
populate_grouped(games) ==
  GroupBoxes(games, SortedLabels({EngineLabel(games[i]) : i \in 1..Len(games)}))

\* the end of _apply_filters_and_sort, `sorted` being what sort_games did:
\* when it raised, nothing is assigned
ShowGames(w, sorted) ==
  IF sorted.raised
  THEN [raised |-> TRUE, window |-> w]
  ELSE [raised |-> FALSE,
        window |-> [w EXCEPT !._filtered_games = sorted.ret,
                             !.grid_container =
                               IF w._group_by_engine
                               THEN populate_grouped(sorted.ret)
                               ELSE populate(sorted.ret)]]

\* _apply_filters_and_sort
apply_filters_and_sort(w, file) ==
  ShowGames(w, sort_games(FilterGames(w), w._current_sort, w._favorites_first, file))

(***************************************************************************)
(* Inputs: the library documents and prober outcomes the model draws from  *)
(***************************************************************************)
\* the custom game _on_drop stores for the folder /home/u/My Game
DroppedGame ==
  to_dict(Game("my_game", "My Game", "", "", "", "", "", "/home/u/My Game", "", TRUE, "", "", ""))

CustomSamples ==
  { << >>,
    << DroppedGame >>,
    << [game_id |-> "dig", name |-> "My Dig"] >>,
    << DroppedGame, [game_id |-> "my_game", name |-> "Other"] >>,
    << [game_id |-> "", name |-> "", path |-> "/", installed |-> TRUE] >>,
    << [name |-> "Other"] >>,
    << [game_id |-> "my_game"] >> }

GameDataSamples ==
  { EmptyDict,
    [dig |-> [favorite |-> TRUE]],
    [dig |-> [favorite |-> TRUE, last_played |-> 2, total_play_time |-> 1],
     my_game |-> [favorite |-> FALSE, last_played |-> 1]],
    [monkey |-> [total_play_time |-> 2, play_start |-> 1]],
    [ghost |-> [favorite |-> TRUE]] }

LibrarySamples ==
  {MissingFile, GarbageFile, ListFile, DictFile(EmptyDict)}
  \cup {DictFile([games |-> gd, custom_games |-> cg]) :
          gd \in GameDataSamples, cg \in CustomSamples}

TargetsHeader ==
  << <<"Target", "Description">>, <<"------", "-----------">> >>

ProberSamples ==
  { [kind |-> "notfound", stdout |-> << >>],
    [kind |-> "timeout", stdout |-> << >>],
    [kind |-> "nonzero", stdout |-> TargetsHeader \o << <<"dig", "The", "Dig">> >>],
    [kind |-> "ok", stdout |-> TargetsHeader],
    [kind |-> "ok", stdout |-> TargetsHeader \o << <<"dig", "The", "Dig", "(CD/DOS)">> >>],
    [kind |-> "ok", stdout |-> TargetsHeader \o << <<"my_game", "My", "Game">>, <<"orphan">> >>],
    [kind |-> "ok", stdout |-> TargetsHeader \o
        << <<"monkey", "The", "Dig">>, <<"my_game", "My", "Game">>, <<"my_game", "Other">>, << >> >>] }

ProberFailed(proc) == proc.kind \in {"notfound", "timeout", "nonzero"}

(***************************************************************************)
(* State                                                                   *)
(***************************************************************************)
NoScan ==
  [done |-> FALSE, proc |-> [kind |-> "none", stdout |-> << >>],
   lib |-> MissingFile, raised |-> FALSE, games |-> << >>]

\* ids whose favorite flag is toggled, ids that are launched
FavIds == {"dig", "my_game"}
PlayIds == {"dig"}

\* no worker thread, no cached asset, nothing recorded
NoThreads == << >>
NoCacheFiles == EmptyDict
NoHist == << >>

NoCall ==
  [op |-> "none", id |-> "", raised |-> FALSE, ret |-> FALSE,
   pre |-> MissingFile, t0 |-> 0, t1 |-> 0, t2 |-> 0,
   prevOp |-> "none", prevId |-> "", prevRet |-> FALSE,
   lastToggle |-> [id \in FavIds |-> "none"],
   started |-> [id \in PlayIds |-> FALSE], wasStarted |-> FALSE]

Init ==
  /\ libraryFile \in LibrarySamples
  /\ settingsFile = MissingFile
  /\ KNOWN_GAMES = KnownGamesInit
  /\ clock = 1
  /\ scan = NoScan
  /\ call = NoCall
  /\ window = NewWindow(settingsFile)
  /\ exportFile = MissingFile
  /\ threads = NoThreads
  /\ idle = << >>
  /\ cacheFiles = NoCacheFiles
  /\ hist = NoHist

\* do_load of MainWindow._load_games: one call of get_all_games.  The
\* Game objects of KNOWN_GAMES keep what the call assigned to them.
GetAllGames(proc) ==
  LET r == get_all_games(KNOWN_GAMES, libraryFile, proc)
  IN /\ scan' = [done |-> TRUE, proc |-> proc, lib |-> libraryFile,
                 raised |-> r.raised, games |-> r.games]
     /\ KNOWN_GAMES' = SubSeq(r.known, 1, Len(KNOWN_GAMES))
     /\ UNCHANGED <<libraryFile, settingsFile, clock, call, window, exportFile,
                    threads, idle, cacheFiles, hist>>

Next == \E proc \in ProberSamples : GetAllGames(proc)

Spec == Init /\ [][Next]_vars

(***************************************************************************)
(* Properties of the reconciler (specification Spec)                       *)
(***************************************************************************)
Returned == scan.done /\ ~ scan.raised

\* the game data and custom games of the document a scan loaded
ScanGameData == Get(load_library(scan.lib).doc, "games", EmptyDict)
ScanCustomGames == Get(load_library(scan.lib).doc, "custom_games", << >>)

\* ids of the custom games (an entry whose game_id is missing or empty has
\* no id)
CustomIds ==
  {Get(ScanCustomGames[i], "game_id", "") : i \in 1..Len(ScanCustomGames)} \ {""}

ProberIds == IdsOf(detect_installed_games(scan.proc))

NoDuplicateIds(s) ==
  \A i, j \in 1..Len(s) : s[i].game_id = s[j].game_id => i = j

StaticRecord(gid) == KnownGamesInit[IndexOf(KnownGamesInit, gid)]
ReturnedRecord(gid) == scan.games[IndexOf(scan.games, gid)]

\* C1: a returned collection has exactly one record per id, its ids are the
\* union of the static-catalog, prober and custom-game ids, and a custom
\* game with a static id leaves the static record in place.
C1_OneRecordPerId ==
  Returned =>
    /\ NoDuplicateIds(scan.games)
    /\ IdsOf(scan.games) = StaticIds \cup ProberIds \cup CustomIds
    /\ \A gid \in StaticIds \cap CustomIds :
         ReturnedRecord(gid).name = StaticRecord(gid).name

C1_Witness ==
  /\ Returned
  /\ StaticIds \cap CustomIds # {}
  /\ ProberIds \ (StaticIds \cup CustomIds) # {}
  /\ Len(scan.games) = Cardinality(StaticIds) + 1

\* C2: for an id the prober reports that is in the static catalog, the
\* returned record is installed, has the prober's path, and keeps every
\* descriptive field of the static catalog.
C2_ProberOverlay ==
  Returned =>
    \A i \in 1..Len(detect_installed_games(scan.proc)) :
      LET g == detect_installed_games(scan.proc)[i]
      IN g.game_id \in StaticIds =>
           /\ ReturnedRecord(g.game_id).installed
           /\ ReturnedRecord(g.game_id).path = g.path
           /\ \A f \in DescriptiveFields :
                ReturnedRecord(g.game_id)[f] = StaticRecord(g.game_id)[f]

C2_Witness ==
  /\ Returned
  /\ \E i \in 1..Len(detect_installed_games(scan.proc)) :
       LET g == detect_installed_games(scan.proc)[i]
       IN /\ g.game_id \in StaticIds
          /\ g.name # StaticRecord(g.game_id).name
          /\ ReturnedRecord(g.game_id).installed

\* C3: the static catalog is immutable: KNOWN_GAMES always has the field
\* values it had at program start.
C3_CatalogImmutable == KNOWN_GAMES = KnownGamesInit

\* a library file on which get_all_games does not raise
LibraryReadable(file) ==
  ~ get_all_games(KnownGamesInit, file, [kind |-> "ok", stdout |-> << >>]).raised

\* C4: a scan whose prober failed returns normally and reports no static
\* game as installed, whatever earlier scans detected.
C4_FailedProbeDetectsNothing ==
  (scan.done /\ ProberFailed(scan.proc) /\ LibraryReadable(scan.lib)) =>
    /\ ~ scan.raised
    /\ \A i \in 1..Len(scan.games) :
         scan.games[i].game_id \in StaticIds => ~ scan.games[i].installed

\* C5: every returned record carries the favorite, last_played and
\* total_play_time stored for its id in the library document, and
\* False, 0, 0 where the entry or the field is absent.
C5_LibraryOverlay ==
  Returned =>
    \A i \in 1..Len(scan.games) :
      LET r == scan.games[i]
          has == r.game_id \in DOMAIN ScanGameData
          gd == IF has THEN ScanGameData[r.game_id] ELSE EmptyDict
      IN /\ r.favorite = (IF "favorite" \in DOMAIN gd THEN gd["favorite"] ELSE FALSE)
         /\ r.last_played = (IF "last_played" \in DOMAIN gd THEN gd["last_played"] ELSE 0)
         /\ r.total_play_time =
              (IF "total_play_time" \in DOMAIN gd THEN gd["total_play_time"] ELSE 0)

C5_Witness ==
  /\ Returned
  /\ \E i, j \in 1..Len(scan.games) :
       /\ scan.games[i].favorite
       /\ scan.games[i].last_played = 2
       /\ scan.games[i].total_play_time = 1
       /\ scan.games[j].game_id \notin DOMAIN ScanGameData
       /\ ~ scan.games[j].favorite
  /\ \E k \in 1..Len(scan.games) :
       /\ scan.games[k].game_id \in DOMAIN ScanGameData
       /\ "total_play_time" \notin DOMAIN ScanGameData[scan.games[k].game_id]
       /\ scan.games[k].total_play_time = 0
       /\ scan.games[k].last_played = 1

\* C7: get_all_games never raises, whatever the content of the library
\* document.
C7_NeverRaises == scan.done => ~ scan.raised

(***************************************************************************)
(* Specification SpecLibrary : favorites and play sessions on library.json *)
(***************************************************************************)
LibraryOpSamples ==
  { MissingFile, GarbageFile, ListFile, DictFile(EmptyDict),
    DictFile([games |-> EmptyDict, custom_games |-> << DroppedGame >>]),
    DictFile([games |-> [dig |-> [favorite |-> TRUE]], custom_games |-> << >>]),
    DictFile([games |-> [dig |-> [play_start |-> 1, total_play_time |-> 2],
                         my_game |-> [favorite |-> FALSE, last_played |-> 1]],
              custom_games |-> << DroppedGame >>]),
    DictFile([games |-> [dig |-> [play_start |-> 0, last_played |-> 1]],
              custom_games |-> << >>]) }

InitLibrary ==
  /\ libraryFile \in LibraryOpSamples
  /\ settingsFile = MissingFile
  /\ KNOWN_GAMES = KnownGamesInit
  /\ clock = 1
  /\ scan = NoScan
  /\ call = [NoCall EXCEPT !.started =
               [id \in PlayIds |-> "play_start" \in DOMAIN EntryOf(libraryFile.doc, id)]]
  /\ window = NewWindow(settingsFile)
  /\ exportFile = MissingFile
  /\ threads = NoThreads
  /\ idle = << >>
  /\ cacheFiles = NoCacheFiles
  /\ hist = NoHist

BoolName(b) == IF b THEN "true" ELSE "false"

\* the record of a call: its result, the file and clock it started from, the
\* times it read, the call that preceded it, per id what the latest
\* toggle_favorite that returned has returned, and per id whether
\* record_play_start has been called since the last record_play_end that
\* returned (at the start: whether the file holds a play_start, which only
\* record_play_start writes); wasStarted is that flag before this call
CallRecord(op, id, r, pre, now1, now2) ==
  [op |-> op, id |-> id, raised |-> r.raised, ret |-> r.ret,
   pre |-> pre, t0 |-> clock, t1 |-> now1, t2 |-> now2,
   prevOp |-> call.op, prevId |-> call.id, prevRet |-> call.ret,
   lastToggle |-> IF op = "toggle_favorite" /\ ~ r.raised
                  THEN [call.lastToggle EXCEPT ![id] = BoolName(r.ret)]
                  ELSE call.lastToggle,
   started |-> IF op = "record_play_start"
               THEN [call.started EXCEPT ![id] = TRUE]
               ELSE IF op = "record_play_end" /\ ~ r.raised
               THEN [call.started EXCEPT ![id] = FALSE]
               ELSE call.started,
   wasStarted |-> IF id \in PlayIds THEN call.started[id] ELSE FALSE]

\* the wall clock advances
Tick ==
  /\ clock < MaxTime
  /\ clock' = clock + 1
  /\ UNCHANGED <<libraryFile, settingsFile, KNOWN_GAMES, scan, call, window, exportFile,
                 threads, idle, cacheFiles, hist>>

\* DetailPanel._on_toggle_favorite
ToggleFavorite(id) ==
  LET r == toggle_favorite(libraryFile, id)
  IN /\ libraryFile' = r.file
     /\ call' = CallRecord("toggle_favorite", id, r, libraryFile, clock, clock)
     /\ UNCHANGED <<settingsFile, KNOWN_GAMES, clock, scan, window, exportFile,
                    threads, idle, cacheFiles, hist>>

\* a call of is_favorite (GameCard, DetailPanel.show_game, sort_games)
IsFavorite(id) ==
  LET r == is_favorite(libraryFile, id)
  IN /\ call' = CallRecord("is_favorite", id, r, libraryFile, clock, clock)
     /\ UNCHANGED <<libraryFile, settingsFile, KNOWN_GAMES, clock, scan, window, exportFile,
                    threads, idle, cacheFiles, hist>>

\* record_play_start in DetailPanel._on_launch
RecordPlayStart(id) ==
  LET r == record_play_start(libraryFile, id, clock)
  IN /\ libraryFile' = r.file
     /\ call' = CallRecord("record_play_start", id, r, libraryFile, clock, clock)
     /\ UNCHANGED <<settingsFile, KNOWN_GAMES, clock, scan, window, exportFile,
                    threads, idle, cacheFiles, hist>>

\* record_play_end in _wait of DetailPanel._on_launch; the clock may advance
\* between its two readings
RecordPlayEnd(id) ==
  \E now2 \in clock..MaxTime :
    LET r == record_play_end(libraryFile, id, clock, now2)
    IN /\ libraryFile' = r.file
       /\ clock' = now2
       /\ call' = CallRecord("record_play_end", id, r, libraryFile, clock, now2)
       /\ UNCHANGED <<settingsFile, KNOWN_GAMES, scan, window, exportFile,
                      threads, idle, cacheFiles, hist>>

NextLibrary ==
  \/ Tick
  \/ \E id \in FavIds : ToggleFavorite(id)
  \/ \E id \in FavIds : IsFavorite(id)
  \/ \E id \in PlayIds : RecordPlayStart(id)
  \/ \E id \in PlayIds : RecordPlayEnd(id)

SpecLibrary == InitLibrary /\ [][NextLibrary]_vars

(***************************************************************************)
(* Properties of favorites and play sessions (specification SpecLibrary)   *)
(***************************************************************************)
\* the per-game entry a library file stores for an id (none in a file that
\* is missing or unparseable)
StoredEntry(file, id) ==
  IF file.kind = "dict" /\ "games" \in DOMAIN file.doc /\ id \in DOMAIN file.doc["games"]
  THEN file.doc["games"][id]
  ELSE EmptyDict

StoredFavorite(file, id) ==
  /\ "favorite" \in DOMAIN StoredEntry(file, id)
  /\ StoredEntry(file, id)["favorite"]

\* C9: toggle_favorite returns the negation of the flag stored before the
\* call (absent counts as false) and stores it; a toggle that follows a
\* toggle of the same id returns the opposite value; is_favorite returns
\* what the latest toggle of the id returned.
C9_ToggleFavorite ==
  /\ (call.op = "toggle_favorite" /\ ~ call.raised) =>
       /\ call.ret = ~ StoredFavorite(call.pre, call.id)
       /\ (call.prevOp = "toggle_favorite" /\ call.prevId = call.id) =>
            call.ret = ~ call.prevRet
  /\ (call.op = "is_favorite" /\ ~ call.raised /\ call.lastToggle[call.id] # "none") =>
       BoolName(call.ret) = call.lastToggle[call.id]
  /\ \A id \in FavIds :
       call.lastToggle[id] # "none" =>
         BoolName(is_favorite(libraryFile, id).ret) = call.lastToggle[id]

C9_Witness ==
  /\ call.op = "is_favorite"
  /\ ~ call.raised
  /\ call.prevOp = "toggle_favorite"
  /\ call.prevId = call.id
  /\ call.prevRet = FALSE
  /\ call.ret = FALSE
  /\ \E other \in FavIds \ {call.id} : call.lastToggle[other] = "true"

\* C10: record_play_end on an id with a nonzero play_start adds the time
\* read minus play_start to total_play_time, removes play_start and sets
\* last_played to the time read; both times are read during the call.
C10_PlayEndAccumulates ==
  (/\ call.op = "record_play_end"
   /\ ~ call.raised
   /\ Get(StoredEntry(call.pre, call.id), "play_start", 0) # 0) =>
    LET before == StoredEntry(call.pre, call.id)
        after == StoredEntry(libraryFile, call.id)
    IN /\ "total_play_time" \in DOMAIN after
       /\ after["total_play_time"] =
            Get(before, "total_play_time", 0) + (call.t1 - before["play_start"])
       /\ "play_start" \notin DOMAIN after
       /\ "last_played" \in DOMAIN after
       /\ after["last_played"] = call.t2
       /\ call.t0 <= call.t1 /\ call.t1 <= call.t2 /\ call.t2 <= clock

C10_Witness ==
  /\ call.op = "record_play_end"
  /\ ~ call.raised
  /\ Get(StoredEntry(call.pre, call.id), "play_start", 0) = 1
  /\ Get(StoredEntry(call.pre, call.id), "total_play_time", 0) = 2
  /\ call.t1 = 2
  /\ call.t2 = 3
  /\ StoredEntry(libraryFile, call.id)["total_play_time"] = 3
  /\ StoredEntry(libraryFile, call.id)["last_played"] = 3

\* C11: record_play_end on an id for which record_play_start has not been
\* called since the previous record_play_end (or ever) leaves
\* total_play_time as it was and sets last_played to the time read.
C11_PlayEndWithoutStart ==
  (call.op = "record_play_end" /\ ~ call.raised /\ ~ call.wasStarted) =>
    LET before == StoredEntry(call.pre, call.id)
        after == StoredEntry(libraryFile, call.id)
    IN /\ ("total_play_time" \in DOMAIN after) = ("total_play_time" \in DOMAIN before)
       /\ Get(after, "total_play_time", 0) = Get(before, "total_play_time", 0)
       /\ "last_played" \in DOMAIN after
       /\ after["last_played"] = call.t2
       /\ call.t0 <= call.t2 /\ call.t2 <= clock

C11_Witness ==
  /\ call.op = "record_play_end"
  /\ ~ call.raised
  /\ ~ call.wasStarted
  /\ call.prevOp = "record_play_end"
  /\ Get(StoredEntry(call.pre, call.id), "total_play_time", 0) = 3
  /\ Get(StoredEntry(call.pre, call.id), "last_played", 0) = 2
  /\ Get(StoredEntry(libraryFile, call.id), "total_play_time", 0) = 3
  /\ Get(StoredEntry(libraryFile, call.id), "last_played", 0) = 3

\* the library document a file holds, as load_library reads it
StoredLibrary(file) == load_library(file).doc

\* the per-game entries of a library document
GamesOf(doc) == Get(doc, "games", EmptyDict)

\* C29: toggle_favorite(id) changes nothing but the favorite flag of id: the
\* other fields of the entry of id (last_played, total_play_time,
\* play_start), the entry of every other id and everything outside "games"
\* (the custom_games list) are the same in the library document after the
\* call as before it.
C29_ToggleFavoriteFrame ==
  (call.op = "toggle_favorite" /\ ~ call.raised) =>
    LET before == StoredLibrary(call.pre)
        after == StoredLibrary(libraryFile)
    IN /\ Pop(EntryOf(after, call.id), "favorite") = Pop(EntryOf(before, call.id), "favorite")
       /\ DOMAIN GamesOf(after) = DOMAIN GamesOf(before) \cup {call.id}
       /\ \A other \in DOMAIN GamesOf(before) \ {call.id} :
            GamesOf(after)[other] = GamesOf(before)[other]
       /\ Pop(after, "games") = Pop(before, "games")

C29_Witness ==
  /\ call.op = "toggle_favorite"
  /\ ~ call.raised
  /\ call.id = "dig"
  /\ Get(StoredEntry(call.pre, "dig"), "play_start", 0) = 1
  /\ Get(StoredEntry(call.pre, "dig"), "total_play_time", 0) = 2
  /\ Get(StoredEntry(libraryFile, "dig"), "play_start", 0) = 1
  /\ "last_played" \in DOMAIN StoredEntry(call.pre, "my_game")
  /\ Get(StoredLibrary(call.pre), "custom_games", << >>) # << >>
  /\ ~ StoredFavorite(call.pre, "dig")
  /\ StoredFavorite(libraryFile, "dig")

(***************************************************************************)
(* Specification SpecStore : loading settings.json and library.json        *)
(***************************************************************************)
\* for each default key a value that differs from its default
OtherSettings ==
  [sort_by |-> "year_asc", launch_mode |-> "fullscreen",
   scummvm_path |-> "/usr/games/scummvm",
   show_installed_only |-> TRUE, favorites_first |-> FALSE]

\* every settings object in which each default key is absent, holds its
\* default, or holds the other value
SettingsDocs ==
  { [k \in S |-> IF k \in O THEN OtherSettings[k] ELSE DefaultSettings[k]] :
      <<S, O>> \in {so \in (SUBSET DOMAIN DefaultSettings) \X (SUBSET DOMAIN DefaultSettings) :
                      so[2] \subseteq so[1]} }

SettingsSamples ==
  {MissingFile, GarbageFile, ListFile} \cup {DictFile(d) : d \in SettingsDocs}

InitStore ==
  /\ libraryFile \in LibraryOpSamples
  /\ settingsFile \in SettingsSamples
  /\ KNOWN_GAMES = KnownGamesInit
  /\ clock = 1
  /\ scan = NoScan
  /\ call = NoCall
  /\ window = NewWindow(settingsFile)
  /\ exportFile = MissingFile
  /\ threads = NoThreads
  /\ idle = << >>
  /\ cacheFiles = NoCacheFiles
  /\ hist = NoHist

\* a call of load_settings
LoadSettings ==
  LET r == load_settings(settingsFile)
  IN /\ call' = CallRecord("load_settings", "",
                           [raised |-> r.raised, ret |-> [kind |-> r.kind, doc |-> r.doc]],
                           settingsFile, clock, clock)
     /\ UNCHANGED <<libraryFile, settingsFile, KNOWN_GAMES, clock, scan, window, exportFile,
                    threads, idle, cacheFiles, hist>>

\* a call of load_library
LoadLibrary ==
  LET r == load_library(libraryFile)
  IN /\ call' = CallRecord("load_library", "",
                           [raised |-> r.raised, ret |-> [kind |-> r.kind, doc |-> r.doc]],
                           libraryFile, clock, clock)
     /\ UNCHANGED <<libraryFile, settingsFile, KNOWN_GAMES, clock, scan, window, exportFile,
                    threads, idle, cacheFiles, hist>>

\* Application._on_welcome_close: load, set welcome_shown, save; item
\* assignment raises on a top level that is no object
WelcomeClose ==
  LET r == load_settings(settingsFile)
      bad == r.raised \/ r.kind # "dict"
  IN /\ settingsFile' = IF bad THEN settingsFile
                        ELSE save_settings(Put(r.doc, "welcome_shown", TRUE))
     /\ call' = CallRecord("_on_welcome_close", "", [raised |-> bad, ret |-> FALSE],
                           settingsFile, clock, clock)
     /\ UNCHANGED <<libraryFile, KNOWN_GAMES, clock, scan, window, exportFile,
                    threads, idle, cacheFiles, hist>>

NextStore ==
  \/ LoadSettings
  \/ LoadLibrary
  \/ WelcomeClose

SpecStore == InitStore /\ [][NextStore]_vars

\* C6: load_library and load_settings never raise, and return the default
\* document when the file is missing or is not parseable JSON.
C6_LoadNeverFails ==
  /\ call.op = "load_library" =>
       /\ ~ call.raised
       /\ call.pre.kind \in {"missing", "garbage"} =>
            call.ret = [kind |-> "dict", doc |-> [games |-> << >>, custom_games |-> << >>]]
  /\ call.op = "load_settings" =>
       /\ ~ call.raised
       /\ call.pre.kind \in {"missing", "garbage"} =>
            call.ret = [kind |-> "dict", doc |-> DefaultSettings]

C6_Witness ==
  /\ call.op = "load_library"
  /\ call.pre.kind = "garbage"
  /\ call.ret.doc = DefaultLibrary
  /\ call.prevOp = "load_settings"
  /\ settingsFile.kind = "missing"

\* C8: the document load_settings returns holds, for every default key, the
\* file's value when the file has the key and the default value when the key
\* or the whole file is missing.
C8_DefaultsForAbsentKeys ==
  (call.op = "load_settings" /\ ~ call.raised /\ call.pre.kind \in {"missing", "dict"}) =>
    \A k \in DOMAIN DefaultSettings :
      /\ k \in DOMAIN call.ret.doc
      /\ call.ret.doc[k] = IF k \in DOMAIN call.pre.doc THEN call.pre.doc[k]
                           ELSE DefaultSettings[k]

(***************************************************************************)
(* sort_games on its own : SpecSort                                        *)
(***************************************************************************)
\* the longest game list handed to the view
MaxGames == 3

\* records as get_all_games returns them : six of the catalog, three of them
\* installed, and one the prober alone knows ("the dig": a name that ties
\* with "The Dig" case-insensitively, no engine, no year)
ViewCatalog ==
  << Game("agi-fanmade", "AGI Fan Games", "agi", "", "", "Various", "DOS",
          "", "", FALSE, "Adventure", "Good", ""),
     Game("bass", "Beneath a Steel Sky (Remastered)", "sky", "", "2009",
          "Revolution", "iOS/Android", "", "", FALSE, "Adventure", "Good", ""),
     Game("maniac", "Maniac Mansion", "scumm", "", "1987", "LucasArts",
          "C64/DOS/NES", "", "", FALSE, "Adventure", "Excellent", ""),
     Game("myst", "Myst", "mohawk", "", "1993", "Cyan", "Mac/Windows",
          "", "", TRUE, "Puzzle", "Good", ""),
     Game("samnmax", "Sam & Max Hit the Road", "scumm", "", "1993",
          "LucasArts", "DOS", "", "", TRUE, "Adventure", "Excellent", ""),
     Game("dig", "The Dig", "scumm", "", "1995", "LucasArts", "DOS",
          "", "", FALSE, "Adventure", "Excellent", "The Dig (video game)"),
     Game("my_game", "the dig", "", "", "", "", "", "", "", TRUE, "", "", "") >>

\* the lists of at most n different records of ViewCatalog, in any order
RECURSIVE GameLists(_)
GameLists(n) ==
  IF n = 0 THEN {<< >>}
  ELSE LET shorter == GameLists(n - 1)
       IN shorter \cup
          { Append(l, ViewCatalog[i]) :
              l \in {x \in shorter : Len(x) = n - 1},
              i \in 1..Len(ViewCatalog) }

UniqueGameLists(n) ==
  { l \in GameLists(n) : Cardinality(IdsOf(l)) = Len(l) }

\* library documents for the favorites of the view
FavoriteLibrarySamples ==
  { MissingFile, ListFile,
    DictFile([games |-> [dig |-> [favorite |-> TRUE],
                         my_game |-> [favorite |-> TRUE, last_played |-> 1],
                         myst |-> [favorite |-> FALSE]],
              custom_games |-> << >>]) }

\* a window with games loaded, a sort chosen and the favorites switch set
InitSort ==
  /\ libraryFile \in FavoriteLibrarySamples
  /\ settingsFile = MissingFile
  /\ KNOWN_GAMES = KnownGamesInit
  /\ clock = 1
  /\ scan = NoScan
  /\ call = NoCall
  /\ \E games \in UniqueGameLists(MaxGames), sort_key \in SortKeys,
        favorites_first \in BOOLEAN :
       window = [NewWindow(settingsFile) EXCEPT !._games = games,
                                                !._current_sort = sort_key,
                                                !._favorites_first = favorites_first]
  /\ exportFile = MissingFile
  /\ threads = NoThreads
  /\ idle = << >>
  /\ cacheFiles = NoCacheFiles
  /\ hist = NoHist

\* the call sort_games(games, self._current_sort, self._favorites_first) of
\* the window on all its games; the record of the call keeps the arguments
\* next to the result, and not the result of the call before
SortGames ==
  LET games == window._games
      sort_key == window._current_sort
      favorites_first == window._favorites_first
      r == sort_games(games, sort_key, favorites_first, libraryFile)
  IN /\ call' = [CallRecord("sort_games", "", r, libraryFile, clock, clock)
                   EXCEPT !.ret = [games |-> games, sort_key |-> sort_key,
                                   favorites_first |-> favorites_first,
                                   result |-> r.ret],
                          !.prevRet = FALSE]
     /\ UNCHANGED <<libraryFile, settingsFile, KNOWN_GAMES, clock, scan, window, exportFile,
                    threads, idle, cacheFiles, hist>>

NextSort == SortGames

SpecSort == InitSort /\ [][NextSort]_vars

\* a call of sort_games has returned
Sorted == call.op = "sort_games" /\ ~ call.raised

\* the result holds the records of the input, each once
IsPermutation(res, games) ==
  /\ Len(res) = Len(games)
  /\ IdsOf(res) = IdsOf(games)

\* the number a string of digits denotes
RECURSIVE YearNumber(_)
YearNumber(cs) ==
  IF cs = << >> THEN 0
  ELSE 10 * YearNumber(SubSeq(cs, 1, Len(cs) - 1)) + (CharCode[cs[Len(cs)]] - 48)

\* C13: under year_asc and under year_desc (favorites_first off) the result
\* of sort_games holds every record with an empty year after every record
\* that has a year, and the records with years oldest first under year_asc,
\* newest first under year_desc.
C13_YearSort ==
  (Sorted /\ call.ret.sort_key \in {"year_asc", "year_desc"}
          /\ ~ call.ret.favorites_first) =>
    LET res == call.ret.result
        n == Len(res)
    IN /\ IsPermutation(res, call.ret.games)
       /\ \A i, j \in 1..n :
            (res[i].year = "" /\ res[j].year # "") => j < i
       /\ \A i, j \in 1..n :
            (i < j /\ res[i].year # "" /\ res[j].year # "") =>
              IF call.ret.sort_key = "year_asc"
              THEN YearNumber(Chars(res[i].year)) <= YearNumber(Chars(res[j].year))
              ELSE YearNumber(Chars(res[i].year)) >= YearNumber(Chars(res[j].year))

\* year_desc on (no year, 1987, 2009) has returned (2009, 1987, no year)
C13_Witness ==
  /\ Sorted
  /\ call.ret.sort_key = "year_desc"
  /\ ~ call.ret.favorites_first
  /\ Len(call.ret.games) = 3
  /\ call.ret.games[1].year = ""
  /\ call.ret.games[2].year = "1987"
  /\ call.ret.games[3].year = "2009"
  /\ call.ret.result = << call.ret.games[3], call.ret.games[2], call.ret.games[1] >>

\* C14: with favorites_first off, records whose sort keys tie stand in the
\* result in their input order, under every sort key (name_asc, name_desc
\* and year_desc among them); and when no two names of the input tie
\* case-insensitively, the name_desc result is the name_asc result reversed.
C14_StableBothDirections ==
  (Sorted /\ ~ call.ret.favorites_first) =>
    LET res == call.ret.result
        games == call.ret.games
        key == call.ret.sort_key
    IN /\ IsPermutation(res, games)
       /\ \A i, j \in 1..Len(res) :
            (i < j /\ SortKeyOf(res[i], key) = SortKeyOf(res[j], key)) =>
              IndexOf(games, res[i].game_id) < IndexOf(games, res[j].game_id)
       /\ (/\ key = "name_desc"
           /\ \A i, j \in 1..Len(games) :
                i # j => Lower(Chars(games[i].name)) # Lower(Chars(games[j].name)))
          => res = ReverseSeq(sort_games(games, "name_asc", FALSE, call.pre).ret)

\* name_desc on ("The Dig", "the dig", "Myst") has returned that same order:
\* the two names tie and keep their input order ahead of "Myst"
C14_Witness ==
  /\ Sorted
  /\ call.ret.sort_key = "name_desc"
  /\ ~ call.ret.favorites_first
  /\ Len(call.ret.games) = 3
  /\ call.ret.games[1].name = "The Dig"
  /\ call.ret.games[2].name = "the dig"
  /\ call.ret.games[3].name = "Myst"
  /\ call.ret.result = call.ret.games

\* C15: with favorites_first on, every record the library document marks as
\* favorite stands before every record it does not, and the favorites among
\* themselves, and the others among themselves, stand as in the result of
\* the same sort with favorites_first off.
C15_FavoritesFirst ==
  (Sorted /\ call.ret.favorites_first) =>
    LET res == call.ret.result
        plain == sort_games(call.ret.games, call.ret.sort_key, FALSE, call.pre).ret
    IN /\ IsPermutation(res, call.ret.games)
       /\ \A i, j \in 1..Len(res) :
            (StoredFavorite(call.pre, res[i].game_id)
               /\ ~ StoredFavorite(call.pre, res[j].game_id)) => i < j
       /\ \A i, j \in 1..Len(res) :
            (i < j /\ StoredFavorite(call.pre, res[i].game_id)
                        = StoredFavorite(call.pre, res[j].game_id)) =>
              IndexOf(plain, res[i].game_id) < IndexOf(plain, res[j].game_id)

\* name_asc with favorites_first on ("AGI Fan Games", "Myst", "The Dig",
\* the last a favorite) has returned the favorite first, the rest in order
C15_Witness ==
  /\ Sorted
  /\ call.ret.sort_key = "name_asc"
  /\ call.ret.favorites_first
  /\ Len(call.ret.games) = 3
  /\ call.ret.games[1].game_id = "agi-fanmade"
  /\ call.ret.games[2].game_id = "myst"
  /\ call.ret.games[3].game_id = "dig"
  /\ StoredFavorite(call.pre, "dig")
  /\ ~ StoredFavorite(call.pre, "myst")
  /\ call.ret.result = << call.ret.games[3], call.ret.games[1], call.ret.games[2] >>

(***************************************************************************)
(* The handlers of the main window : SpecView                              *)
(***************************************************************************)
\* the lists get_all_games hands to the window : runs of ViewCatalog (which
\* is sorted by name) of at most MaxGames records
LoadedGameLists ==
  { SubSeq(ViewCatalog, i, Min(i + n - 1, Len(ViewCatalog))) :
      i \in 1..Len(ViewCatalog),
      n \in 0..MaxGames }

\* what the user types into the search entry
SearchTexts == {"", "   ", " Max ", "lucasarts"}

SORT_OPTIONS ==
  << "name_asc", "name_desc", "year_asc", "year_desc", "developer_asc", "engine_asc" >>

ALL_GENRES == << "Adventure", "Puzzle", "RPG", "Action", "Strategy" >>

\* the rows of the genre dropdown the user picks from: All Genres and the
\* first two genres
GenreRows == 0..2

\* the rows of the sort dropdown the user picks from: name_asc, year_desc
SortRows == {0, 3}

\* the window as constructed, over a library.json that holds favorites
InitView ==
  /\ libraryFile \in {f \in FavoriteLibrarySamples : f.kind = "dict"}
  /\ settingsFile = MissingFile
  /\ KNOWN_GAMES = KnownGamesInit
  /\ clock = 1
  /\ scan = NoScan
  /\ call = NoCall
  /\ window = NewWindow(settingsFile)
  /\ exportFile = MissingFile
  /\ threads = NoThreads
  /\ idle = << >>
  /\ cacheFiles = NoCacheFiles
  /\ hist = NoHist

\* the end of a handler : _apply_filters_and_sort on the window w the
\* handler has assigned to, and the record of that call (which handler it
\* ended, and the call before it, are not kept)
RefreshView(w) ==
  LET r == apply_filters_and_sort(w, libraryFile)
  IN /\ window' = r.window
     /\ call' = [CallRecord("_apply_filters_and_sort", "",
                            [raised |-> r.raised, ret |-> FALSE],
                            libraryFile, clock, clock)
                   EXCEPT !.prevOp = "none"]

\* MainWindow._on_games_loaded
OnGamesLoaded(games) ==
  /\ RefreshView([window EXCEPT !._games = games])
  /\ UNCHANGED <<libraryFile, settingsFile, KNOWN_GAMES, clock, scan, exportFile,
                 threads, idle, cacheFiles, hist>>

\* MainWindow._on_search_changed : the entry holds the new text
OnSearchChanged(text) ==
  /\ RefreshView([window EXCEPT !.search_text = text])
  /\ UNCHANGED <<libraryFile, settingsFile, KNOWN_GAMES, clock, scan, exportFile,
                 threads, idle, cacheFiles, hist>>

\* MainWindow._on_sort_changed : the choice is also saved as default_sort;
\* item assignment raises on a settings.json whose top level is a list
OnSortChanged(idx) ==
  LET w == [window EXCEPT !._current_sort = SORT_OPTIONS[idx + 1]]
      settings == load_settings(settingsFile)
  IN /\ idx < Len(SORT_OPTIONS)
     /\ IF settings.kind # "dict"
        THEN /\ window' = w
             /\ settingsFile' = settingsFile
             /\ call' = [CallRecord("_on_sort_changed", "",
                                    [raised |-> TRUE, ret |-> FALSE],
                                    libraryFile, clock, clock)
                           EXCEPT !.prevOp = "none"]
        ELSE /\ settingsFile' =
                  save_settings(Put(settings.doc, "default_sort", w._current_sort))
             /\ RefreshView(w)
     /\ UNCHANGED <<libraryFile, KNOWN_GAMES, clock, scan, exportFile,
                    threads, idle, cacheFiles, hist>>

\* MainWindow._on_installed_toggled
OnInstalledToggled(active) ==
  /\ RefreshView([window EXCEPT !._show_installed_only = active])
  /\ UNCHANGED <<libraryFile, settingsFile, KNOWN_GAMES, clock, scan, exportFile,
                 threads, idle, cacheFiles, hist>>

\* MainWindow._on_favfirst_toggled
OnFavfirstToggled(active) ==
  /\ RefreshView([window EXCEPT !._favorites_first = active])
  /\ UNCHANGED <<libraryFile, settingsFile, KNOWN_GAMES, clock, scan, exportFile,
                 threads, idle, cacheFiles, hist>>

\* MainWindow._on_genre_changed : row 0 is "All Genres"
OnGenreChanged(idx) ==
  /\ RefreshView([window EXCEPT !._current_genre_filter =
                    IF idx = 0 THEN ""
                    ELSE IF idx - 1 < Len(ALL_GENRES) THEN ALL_GENRES[idx]
                    ELSE ""])
  /\ UNCHANGED <<libraryFile, settingsFile, KNOWN_GAMES, clock, scan, exportFile,
                 threads, idle, cacheFiles, hist>>

\* MainWindow._on_toggle_group_engine
OnToggleGroupEngine ==
  /\ RefreshView([window EXCEPT !._group_by_engine = ~ window._group_by_engine])
  /\ UNCHANGED <<libraryFile, settingsFile, KNOWN_GAMES, clock, scan, exportFile,
                 threads, idle, cacheFiles, hist>>

NextView ==
  \/ \E games \in LoadedGameLists : OnGamesLoaded(games)
  \/ \E text \in SearchTexts : OnSearchChanged(text)
  \/ \E idx \in SortRows : OnSortChanged(idx)
  \/ \E active \in BOOLEAN : OnInstalledToggled(active)
  \/ \E active \in BOOLEAN : OnFavfirstToggled(active)
  \/ \E idx \in GenreRows : OnGenreChanged(idx)
  \/ OnToggleGroupEngine

SpecView == InitView /\ [][NextView]_vars

\* a handler of the window has run _apply_filters_and_sort to its end
ViewRefreshed == call.op = "_apply_filters_and_sort" /\ ~ call.raised

\* the query is a substring of field f, both lower-cased, the query trimmed
QueryIn(text, f) == Contains(Lower(Chars(f)), Strip(Lower(Chars(text))))

\* g satisfies every filter of the window that is set
PassesFilters(g) ==
  /\ window._show_installed_only => g.installed
  /\ window._current_genre_filter # "" => g.genre = window._current_genre_filter
  /\ Strip(Lower(Chars(window.search_text))) # << >> =>
       \/ QueryIn(window.search_text, g.name)
       \/ QueryIn(window.search_text, g.game_id)
       \/ QueryIn(window.search_text, g.company)
       \/ QueryIn(window.search_text, g.engine)
       \/ QueryIn(window.search_text, g.genre)

\* C12: after _apply_filters_and_sort the filtered list holds, each once,
\* exactly the loaded records that pass every filter that is set: installed
\* when installed-only is on, genre equal to the selected genre when one is
\* selected, and, when the lower-cased trimmed query is not empty, the query
\* a substring of the lower-cased name, id, company, engine or genre.
C12_FilteredList ==
  ViewRefreshed =>
    LET all == window._games
        kept == window._filtered_games
    IN /\ IdsOf(kept) = { all[i].game_id : i \in { k \in 1..Len(all) : PassesFilters(all[k]) } }
       /\ Cardinality(IdsOf(kept)) = Len(kept)
       /\ \A i \in 1..Len(kept) : kept[i] = all[IndexOf(all, kept[i].game_id)]

\* the search " Max " over Myst, Sam & Max Hit the Road and The Dig, with
\* installed-only on, has kept Sam & Max Hit the Road alone
C12_Witness ==
  /\ ViewRefreshed
  /\ window.search_text = " Max "
  /\ window._show_installed_only
  /\ window._current_genre_filter = "Adventure"
  /\ IdsOf(window._games) = {"myst", "samnmax", "dig"}
  /\ Len(window._filtered_games) = 1
  /\ window._filtered_games[1].game_id = "samnmax"

\* the view shows groups : a handler has run to its end with group-by-engine
\* on
Grouped == ViewRefreshed /\ window._group_by_engine

\* the label the claim gives a record
LabelOf(g) == IF g.engine = "" THEN "Unknown" ELSE g.engine

\* the flow boxes partition the filtered list by label: a box per label that
\* occurs, every record in exactly one box, the box of its label, and every
\* box in the order of the filtered list
GroupsPartition ==
  LET boxes == window.grid_container
      kept == window._filtered_games
  IN /\ { boxes[k].header : k \in 1..Len(boxes) } =
          { LabelOf(kept[i]) : i \in 1..Len(kept) }
     /\ \A i \in 1..Len(kept) :
          /\ Cardinality({ k \in 1..Len(boxes) :
                             kept[i].game_id \in IdsOf(boxes[k].games) }) = 1
          /\ \A k \in 1..Len(boxes) :
               kept[i].game_id \in IdsOf(boxes[k].games) =>
                 boxes[k].header = LabelOf(kept[i])
     /\ \A k \in 1..Len(boxes) :
          LET gs == boxes[k].games
          IN /\ gs # << >>
             /\ Cardinality(IdsOf(gs)) = Len(gs)
             /\ \A i \in 1..Len(gs) :
                  /\ gs[i].game_id \in IdsOf(kept)
                  /\ gs[i] = kept[IndexOf(kept, gs[i].game_id)]
             /\ \A i, j \in 1..Len(gs) :
                  i < j => IndexOf(kept, gs[i].game_id) < IndexOf(kept, gs[j].game_id)

\* C16 as stated: with group-by-engine on, the groups partition the filtered
\* and sorted list by engine, "Unknown" for an empty engine, every record in
\* exactly one group and in sorted order within it, and the groups stand in
\* ascending alphabetical order of their labels (letters compared without
\* regard to case).
C16_GroupsAlphabetical ==
  Grouped =>
    /\ GroupsPartition
    /\ \A k, l \in 1..Len(window.grid_container) :
         k < l => StrLess(Lower(Chars(window.grid_container[k].header)),
                          Lower(Chars(window.grid_container[l].header)))

\* C16, amended: as above, with the groups in ascending order of their
\* labels compared as strings, code point by code point, so that "Unknown"
\* stands before every label that starts with a lower-case letter.
C16_GroupsByCodePoint ==
  Grouped =>
    /\ GroupsPartition
    /\ \A k, l \in 1..Len(window.grid_container) :
         k < l => StrLess(Chars(window.grid_container[k].header),
                          Chars(window.grid_container[l].header))

\* Sam & Max Hit the Road, The Dig and the engine-less "the dig" are shown
\* grouped: "Unknown" first, then "scumm" with its two games in list order
C16_Witness ==
  /\ Grouped
  /\ Len(window._filtered_games) = 3
  /\ Len(window.grid_container) = 2
  /\ window.grid_container[1].header = "Unknown"
  /\ IdsOf(window.grid_container[1].games) = {"my_game"}
  /\ window.grid_container[2].header = "scumm"
  /\ Len(window.grid_container[2].games) = 2
  /\ window.grid_container[2].games[1].game_id = "samnmax"
  /\ window.grid_container[2].games[2].game_id = "dig"

(***************************************************************************)
(* Export and import : SpecImport                                          *)
(*                                                                         *)
(* The exported file is a JSON object with the keys "library" and "games". *)
(* A JSON value that may be an object or a list is kept as [kind, doc],    *)
(* as the files are.                                                       *)
(***************************************************************************)
\* [g.to_dict() for g in games]
ToDicts(games) == [i \in 1..Len(games) |-> to_dict(games[i])]

\* export_library_json(games, path) : the file written at path
export_library_json(games, file) ==
  LET lib == load_library(file)
  IN DictFile([library |-> [kind |-> lib.kind, doc |-> lib.doc],
               games |-> ToDicts(games)])

\* dict.update : the entries of `other` replace or extend those of d
Update(d, other) == other @@ d

\* import_library_json that carries over the favorite flags alone
import_library_json_FavoritesOnly(file, path) ==
  IF path.kind # "dict" THEN [raised |-> FALSE, file |-> file, ret |-> << >>]
  ELSE LET data == path.doc
           lib == load_library(file)
           merged ==
             IF "library" \notin DOMAIN data THEN [raised |-> FALSE, file |-> file]
             ELSE IF data["library"].kind # "dict" \/ lib.kind # "dict"
             THEN [raised |-> TRUE, file |-> file]
             ELSE LET imported_games == Get(data["library"].doc, "games", EmptyDict)
                      flags == [id \in DOMAIN imported_games |->
                                  [favorite |-> Get(imported_games[id], "favorite", FALSE)]]
                  IN [raised |-> FALSE,
                      file |-> save_library(
                                 Put(lib.doc, "games",
                                     Update(Get(lib.doc, "games", EmptyDict), flags)))]
       IN IF merged.raised THEN [raised |-> FALSE, file |-> file, ret |-> << >>]
          ELSE [raised |-> FALSE, file |-> merged.file,
                ret |-> Get(data, "games", << >>)]

\* import_library_json that assigns the imported entries as the "games" of
\* the library
import_library_json_Replaces(file, path) ==
  IF path.kind # "dict" THEN [raised |-> FALSE, file |-> file, ret |-> << >>]
  ELSE LET data == path.doc
           lib == load_library(file)
           merged ==
             IF "library" \notin DOMAIN data THEN [raised |-> FALSE, file |-> file]
             ELSE IF data["library"].kind # "dict" \/ lib.kind # "dict"
             THEN [raised |-> TRUE, file |-> file]
             ELSE LET imported_games == Get(data["library"].doc, "games", EmptyDict)
                  IN [raised |-> FALSE,
                      file |-> save_library(Put(lib.doc, "games", imported_games))]
       IN IF merged.raised THEN [raised |-> FALSE, file |-> file, ret |-> << >>]
          ELSE [raised |-> FALSE, file |-> merged.file,
                ret |-> Get(data, "games", << >>)]

\* import_library_json(path) with library file `file` : a file that is
\* missing, does not parse or holds a list returns [] (open, json.load and
\* data.get raise inside the try); so does an imported or a present library
\* that is no object (.get, .setdefault raise), with nothing saved
import_library_json(file, path) ==
  IF path.kind # "dict" THEN [raised |-> FALSE, file |-> file, ret |-> << >>]
  ELSE LET data == path.doc
           lib == load_library(file)
           merged ==
             IF "library" \notin DOMAIN data THEN [raised |-> FALSE, file |-> file]
             ELSE IF data["library"].kind # "dict" \/ lib.kind # "dict"
             THEN [raised |-> TRUE, file |-> file]
             ELSE LET imported_games == Get(data["library"].doc, "games", EmptyDict)
                  IN [raised |-> FALSE,
                      file |-> save_library(
                                 Put(lib.doc, "games",
                                     Update(Get(lib.doc, "games", EmptyDict),
                                            imported_games)))]
       IN IF merged.raised THEN [raised |-> FALSE, file |-> file, ret |-> << >>]
          ELSE [raised |-> FALSE, file |-> merged.file,
                ret |-> Get(data, "games", << >>)]

\* the loop of _on_import_finish with the id added to `existing` on append
RECURSIVE AppendCustom_TracksAppended(_, _, _)
AppendCustom_TracksAppended(doc, custom, existing) ==
  IF custom = << >> THEN doc
  ELSE LET cg == Head(custom)
       IN IF Get(cg, "game_id", "") # "" /\ cg["game_id"] \notin existing
          THEN AppendCustom_TracksAppended(
                 Put(doc, "custom_games", Append(Get(doc, "custom_games", << >>), cg)),
                 Tail(custom), existing \cup {cg["game_id"]})
          ELSE AppendCustom_TracksAppended(doc, Tail(custom), existing)

\* the loop of _on_import_finish : `existing` is computed before the loop
\* and stays as it is
RECURSIVE AppendCustom(_, _, _)
AppendCustom(doc, custom, existing) ==
  IF custom = << >> THEN doc
  ELSE LET cg == Head(custom)
       IN IF Get(cg, "game_id", "") # "" /\ cg["game_id"] \notin existing
          THEN AppendCustom(
                 Put(doc, "custom_games", Append(Get(doc, "custom_games", << >>), cg)),
                 Tail(custom), existing)
          ELSE AppendCustom(doc, Tail(custom), existing)

\* MainWindow._on_import_finish up to its call of _load_games : the library
\* file after it, what import_library_json returned and left behind, and
\* whether an exception ended it (a library that is no object, a stored
\* custom game without "game_id")
on_import_finish(file, path) ==
  LET imp == import_library_json(file, path)
      lib == load_library(imp.file)
      stored == Get(lib.doc, "custom_games", << >>)
  IN IF imp.ret = << >>
     THEN [raised |-> FALSE, file |-> imp.file, custom |-> imp.ret, imported |-> imp.file]
     ELSE IF lib.kind # "dict" \/ \E i \in 1..Len(stored) : "game_id" \notin DOMAIN stored[i]
     THEN [raised |-> TRUE, file |-> imp.file, custom |-> imp.ret, imported |-> imp.file]
     ELSE [raised |-> FALSE,
           file |-> save_library(AppendCustom(lib.doc, imp.ret,
                                   { stored[i]["game_id"] : i \in 1..Len(stored) })),
           custom |-> imp.ret, imported |-> imp.file]

\* library documents the window starts over, none with a repeated custom id
ImportLibrarySamples ==
  { MissingFile, ListFile,
    DictFile([games |-> [dig |-> [favorite |-> TRUE, last_played |-> 1,
                                  total_play_time |-> 2],
                         my_game |-> [favorite |-> FALSE]],
              custom_games |-> << DroppedGame >>]) }

\* files the user picks in the import dialog, other than the exported one
ImportFileSamples ==
  { GarbageFile,
    DictFile([library |-> DictFile([games |-> [dig |-> [favorite |-> FALSE]],
                                    custom_games |-> << >>]),
              games |-> << [game_id |-> "mygame", name |-> "mygame"],
                           [game_id |-> "mygame", name |-> "Other"] >>]),
    DictFile([games |-> << DroppedGame, [name |-> "Other"] >>]) }

\* the prober of the scans of this specification
ImportProber ==
  [kind |-> "ok", stdout |-> TargetsHeader \o << <<"my_game", "My", "Game">> >>]

InitImport ==
  /\ libraryFile \in ImportLibrarySamples
  /\ settingsFile = MissingFile
  /\ KNOWN_GAMES = KnownGamesInit
  /\ clock = 1
  /\ scan = NoScan
  /\ call = NoCall
  /\ window = NewWindow(settingsFile)
  /\ exportFile = MissingFile
  /\ threads = NoThreads
  /\ idle = << >>
  /\ cacheFiles = NoCacheFiles
  /\ hist = NoHist

\* MainWindow._on_export_finish : the games of the window and the library
\* are written to the chosen file
OnExportFinish ==
  /\ exportFile' = export_library_json(window._games, libraryFile)
  /\ call' = [CallRecord("_on_export_finish", "", [raised |-> FALSE, ret |-> FALSE],
                         libraryFile, clock, clock)
                EXCEPT !.prevRet = FALSE]
  /\ UNCHANGED <<libraryFile, settingsFile, KNOWN_GAMES, clock, scan, window,
                 threads, idle, cacheFiles, hist>>

\* do_load of _load_games over library file `file` and the _on_games_loaded
\* it schedules; when get_all_games raises the thread ends and the window is
\* not told
LoadGames(file) ==
  LET r == get_all_games(KNOWN_GAMES, file, ImportProber)
  IN /\ scan' = [done |-> TRUE, proc |-> ImportProber, lib |-> file,
                 raised |-> r.raised, games |-> r.games]
     /\ KNOWN_GAMES' = SubSeq(r.known, 1, Len(KNOWN_GAMES))
     /\ window' = IF r.raised THEN window
                  ELSE apply_filters_and_sort([window EXCEPT !._games = r.games],
                                              file).window

\* MainWindow._on_import_finish on the file `path`, with the reload that
\* ends it (none when an exception ended the handler before); the record of
\* the call keeps the file, what import_library_json returned and the
\* library file as import_library_json left it
OnImportFinish(path) ==
  LET r == on_import_finish(libraryFile, path)
  IN /\ libraryFile' = r.file
     /\ call' = [CallRecord("_on_import_finish", "",
                            [raised |-> r.raised,
                             ret |-> [path |-> path, custom |-> r.custom,
                                      imported |-> r.imported]],
                            libraryFile, clock, clock)
                   EXCEPT !.prevRet = FALSE]
     /\ IF r.raised THEN UNCHANGED <<KNOWN_GAMES, scan, window>>
        ELSE LoadGames(r.file)
     /\ UNCHANGED <<settingsFile, clock, exportFile,
                    threads, idle, cacheFiles, hist>>

\* MainWindow._on_scan : a reload
OnScan ==
  /\ LoadGames(libraryFile)
  /\ call' = [CallRecord("_on_scan", "", [raised |-> FALSE, ret |-> FALSE],
                         libraryFile, clock, clock)
                EXCEPT !.prevRet = FALSE]
  /\ UNCHANGED <<libraryFile, settingsFile, clock, exportFile,
                 threads, idle, cacheFiles, hist>>

NextImport ==
  \/ OnExportFinish
  \/ OnImportFinish(exportFile)
  \/ \E path \in ImportFileSamples : OnImportFinish(path)
  \/ OnScan

SpecImport == InitImport /\ [][NextImport]_vars

\* _on_import_finish has run
Imported == call.op = "_on_import_finish"

\* the "games" object of a library file, empty when there is none
StoredGames(file) ==
  IF file.kind = "dict" /\ "games" \in DOMAIN file.doc THEN file.doc["games"]
  ELSE EmptyDict

\* the custom_games list of a library file, empty when there is none
StoredCustom(file) ==
  IF file.kind = "dict" /\ "custom_games" \in DOMAIN file.doc
  THEN file.doc["custom_games"]
  ELSE << >>

StateFields == {"favorite", "last_played", "total_play_time"}

\* the entry of id holds the same favorite, last_played and total_play_time
\* in both files (each present in both with one value, or in neither)
SameState(f1, f2, id) ==
  \A k \in StateFields :
    /\ (k \in DOMAIN StoredEntry(f1, id)) = (k \in DOMAIN StoredEntry(f2, id))
    /\ k \in DOMAIN StoredEntry(f1, id) => StoredEntry(f1, id)[k] = StoredEntry(f2, id)[k]

\* C17: when the file written by an export is imported with nothing done in
\* between, every id that had an entry in the library before the export has
\* the favorite, last_played and total_play_time it had before the export,
\* after import_library_json and after the whole import handler.
C17_RoundTrip ==
  (Imported /\ call.prevOp = "_on_export_finish" /\ call.ret.path = exportFile) =>
    \A id \in DOMAIN StoredGames(call.pre) :
      /\ id \in DOMAIN StoredGames(libraryFile)
      /\ SameState(call.pre, call.ret.imported, id)
      /\ SameState(call.pre, libraryFile, id)

\* a library with a favorite and play time has been exported with the games
\* loaded, the file has been imported next, and the import has saved
C17_Witness ==
  /\ Imported
  /\ ~ call.raised
  /\ call.prevOp = "_on_export_finish"
  /\ call.ret.path = exportFile
  /\ call.ret.custom # << >>
  /\ "dig" \in DOMAIN StoredGames(call.pre)
  /\ StoredEntry(call.pre, "dig") = [favorite |-> TRUE, last_played |-> 1,
                                     total_play_time |-> 2]
  /\ StoredEntry(libraryFile, "dig") = StoredEntry(call.pre, "dig")
  /\ libraryFile # call.pre

\* no id occurs twice in the list of custom games
UniqueCustomIds(file) ==
  \A i, j \in 1..Len(StoredCustom(file)) :
    (/\ i # j
     /\ "game_id" \in DOMAIN StoredCustom(file)[i]
     /\ "game_id" \in DOMAIN StoredCustom(file)[j])
    => StoredCustom(file)[i]["game_id"] # StoredCustom(file)[j]["game_id"]

\* C18: after _on_import_finish the custom_games list of the library holds
\* at most one entry per game_id, given it held at most one per id before,
\* whatever the imported games array is (one that repeats an id included).
C18_ImportDeduplicates ==
  (Imported /\ UniqueCustomIds(call.pre)) => UniqueCustomIds(libraryFile)

\* C19: after import_library_json (and after the import handler) every id
\* with an entry in the library and none in the imported file has its
\* favorite, last_played and total_play_time unchanged, and the custom games
\* stored before are still there, in place.
C19_ImportMerges ==
  Imported =>
    LET importedIds ==
          IF call.ret.path.kind = "dict" /\ "library" \in DOMAIN call.ret.path.doc
          THEN DOMAIN StoredGames(call.ret.path.doc["library"])
          ELSE {}
        before == StoredCustom(call.pre)
    IN /\ \A id \in DOMAIN StoredGames(call.pre) \ importedIds :
            /\ id \in DOMAIN StoredGames(libraryFile)
            /\ SameState(call.pre, call.ret.imported, id)
            /\ SameState(call.pre, libraryFile, id)
       /\ StoredCustom(call.ret.imported) = before
       /\ Len(StoredCustom(libraryFile)) >= Len(before)
       /\ SubSeq(StoredCustom(libraryFile), 1, Len(before)) = before

\* a file with an entry for dig alone has been imported into a library with
\* entries for dig and my_game and one custom game: dig's entry is the
\* imported one, my_game's entry and the custom game are as before
C19_Witness ==
  /\ Imported
  /\ ~ call.raised
  /\ call.ret.path.kind = "dict"
  /\ "library" \in DOMAIN call.ret.path.doc
  /\ DOMAIN StoredGames(call.ret.path.doc["library"]) = {"dig"}
  /\ DOMAIN StoredGames(call.pre) = {"dig", "my_game"}
  /\ StoredEntry(call.pre, "dig") # StoredEntry(libraryFile, "dig")
  /\ StoredEntry(libraryFile, "my_game") = StoredEntry(call.pre, "my_game")
  /\ StoredCustom(call.pre) = << DroppedGame >>
  /\ Len(StoredCustom(libraryFile)) > 1

(***************************************************************************)
(* detect_installed_games on its own : SpecProber                          *)
(***************************************************************************)
\* the longest output of the executable, in lines
MaxLines == 4

\* the lines the output is made of : a blank line, a line of one token, a
\* header line, two target lines
OutputLines ==
  { << >>, <<"orphan">>, <<"Target", "Description">>,
    <<"dig", "The", "Dig">>, <<"my_game", "My", "Game">> }

RECURSIVE Outputs(_)
Outputs(n) ==
  IF n = 0 THEN {<< >>}
  ELSE LET shorter == Outputs(n - 1)
       IN shorter \cup
          { Append(o, l) : o \in {x \in shorter : Len(x) = n - 1}, l \in OutputLines }

\* the executable has run : scan.proc is what subprocess.run will hand over
InitProber ==
  /\ libraryFile = MissingFile
  /\ settingsFile = MissingFile
  /\ KNOWN_GAMES = KnownGamesInit
  /\ clock = 1
  /\ \E kind \in {"ok", "nonzero", "notfound", "timeout"}, stdout \in Outputs(MaxLines) :
       scan = [NoScan EXCEPT !.proc = [kind |-> kind, stdout |-> stdout]]
  /\ call = NoCall
  /\ window = NewWindow(settingsFile)
  /\ exportFile = MissingFile
  /\ threads = NoThreads
  /\ idle = << >>
  /\ cacheFiles = NoCacheFiles
  /\ hist = NoHist

\* a call of detect_installed_games
DetectInstalledGames ==
  /\ call' = [CallRecord("detect_installed_games", "",
                         [raised |-> FALSE, ret |-> detect_installed_games(scan.proc)],
                         libraryFile, clock, clock)
                EXCEPT !.prevRet = FALSE]
  /\ UNCHANGED <<libraryFile, settingsFile, KNOWN_GAMES, clock, scan, window, exportFile,
                 threads, idle, cacheFiles, hist>>

NextProber == DetectInstalledGames

SpecProber == InitProber /\ [][NextProber]_vars

\* detect_installed_games has returned
Detected == call.op = "detect_installed_games"

\* `games` holds, in order, one record for every line of `lines` with two or
\* more tokens : id the first token, name the others joined by single
\* blanks, installed, and nothing else set
RecordsOfLines(games, lines) ==
  LET idx == { i \in 1..Len(lines) : Len(lines[i]) >= 2 }
      rank(i) == Cardinality({ j \in idx : j <= i })
  IN /\ Len(games) = Cardinality(idx)
     /\ \A i \in idx :
          LET g == games[rank(i)]
          IN /\ g.game_id = lines[i][1]
             /\ g.name = Join(Tail(lines[i]))
             /\ g.installed
             /\ \A f \in {"engine", "description", "year", "company", "platform",
                          "path", "genre", "compatibility"} : g[f] = ""
             /\ g.icon_name = g.game_id
             /\ g.wiki_title = g.name
             /\ ~ g.favorite /\ g.last_played = 0 /\ g.total_play_time = 0

\* the output without the blank lines at its start and at its end
Stripped(out) ==
  LET full == { i \in 1..Len(out) : out[i] # << >> }
  IN IF full = {} THEN << >>
     ELSE SubSeq(out, CHOOSE i \in full : \A j \in full : i <= j,
                      CHOOSE i \in full : \A j \in full : j <= i)

\* C20 as stated: on exit 0 the first two lines of the output are skipped
\* and every other line with two or more tokens yields one record (id the
\* first token, name the rest joined by single blanks, installed, no other
\* metadata), lines with fewer tokens yield nothing; any other outcome of
\* the run yields no records.
C20_SkipsFirstTwoLines ==
  Detected =>
    IF scan.proc.kind = "ok"
    THEN RecordsOfLines(call.ret,
                        SubSeq(scan.proc.stdout, 3, Len(scan.proc.stdout)))
    ELSE call.ret = << >>

\* C20, amended: the two lines skipped are the first two of the output with
\* its leading and trailing blank lines removed; the rest as stated.
C20_SkipsTwoAfterStrip ==
  Detected =>
    IF scan.proc.kind = "ok"
    THEN RecordsOfLines(call.ret,
                        SubSeq(Stripped(scan.proc.stdout), 3,
                               Len(Stripped(scan.proc.stdout))))
    ELSE call.ret = << >>

\* an output of a blank line, the header line, and the lines of dig and
\* my_game has yielded my_game alone: the blank line is not counted and the
\* line of dig is skipped as the second header line
C20_Witness ==
  /\ Detected
  /\ scan.proc.kind = "ok"
  /\ scan.proc.stdout = << << >>, <<"Target", "Description">>,
                           <<"dig", "The", "Dig">>, <<"my_game", "My", "Game">> >>
  /\ Len(call.ret) = 1
  /\ call.ret[1].game_id = "my_game"
  /\ call.ret[1].name = "My Game"
  /\ call.ret[1].installed

(***************************************************************************)
(* Specification SpecSessions : launching a game and waiting for its exit  *)
(*                                                                         *)
(* threads holds one record per running _wait thread of                    *)
(* DetailPanel._on_launch: the id it was started for and the time of the   *)
(* launch.  hist holds the finished sessions, each with the time of its    *)
(* launch and the time record_play_end read when the game exited.          *)
(***************************************************************************)
MaxLaunches == 3

\* DetailPanel._on_launch for the selected game ("" : none selected), now
\* being the value of time.time() and found telling whether Popen finds the
\* executable.  ret tells whether the _wait thread has been started; raised
\* stands for an exception other than FileNotFoundError, which leaves the
\* handler.
on_launch(settings, file, game_id, now, found) ==
  IF game_id = ""
  THEN [raised |-> FALSE, file |-> file, ret |-> FALSE]
  ELSE IF load_settings(settings).kind # "dict"
  THEN [raised |-> TRUE, file |-> file, ret |-> FALSE]
  ELSE LET r == record_play_start(file, game_id, now)
       IN IF r.raised
          THEN [raised |-> TRUE, file |-> file, ret |-> FALSE]
          ELSE [raised |-> FALSE, file |-> r.file, ret |-> found]

SessionLibrarySamples ==
  { MissingFile,
    DictFile([games |-> [dig |-> [favorite |-> TRUE]], custom_games |-> << >>]),
    DictFile([games |-> [dig |-> [total_play_time |-> 2, last_played |-> 1]],
              custom_games |-> << DroppedGame >>]) }

SessionSettingsSamples == {MissingFile, ListFile}

\* no session yet; base is the total_play_time the library holds per id
NoSessions(file) ==
  [sessions |-> << >>, launches |-> 0,
   base |-> [id \in PlayIds |-> Get(StoredEntry(file, id), "total_play_time", 0)]]

InitSessions ==
  /\ libraryFile \in SessionLibrarySamples
  /\ settingsFile \in SessionSettingsSamples
  /\ KNOWN_GAMES = KnownGamesInit
  /\ clock = 1
  /\ scan = NoScan
  /\ call = NoCall
  /\ window = NewWindow(MissingFile)
  /\ exportFile = MissingFile
  /\ threads = NoThreads
  /\ idle = << >>
  /\ cacheFiles = NoCacheFiles
  /\ hist = NoSessions(libraryFile)

\* DetailPanel._on_launch; a _wait thread is started when Popen returned
OnLaunch(game_id, found) ==
  LET r == on_launch(settingsFile, libraryFile, game_id, clock, found)
  IN /\ hist.launches < MaxLaunches
     /\ libraryFile' = r.file
     /\ threads' = IF r.ret
                   THEN Append(threads, [id |-> game_id, start |-> clock])
                   ELSE threads
     /\ call' = [CallRecord("_on_launch", game_id, r, libraryFile, clock, clock)
                   EXCEPT !.prevOp = "none", !.prevId = "", !.prevRet = FALSE]
     /\ hist' = [hist EXCEPT !.launches = @ + 1]
     /\ UNCHANGED <<settingsFile, KNOWN_GAMES, clock, scan, window, exportFile,
                    idle, cacheFiles>>

\* the sequence without its i-th element
RemoveAt(seq, i) == SubSeq(seq, 1, i - 1) \o SubSeq(seq, i + 1, Len(seq))

\* _wait of DetailPanel._on_launch, from the return of proc.wait():
\* record_play_end, then the refresh of the play time labels is queued
GameExit(i) ==
  /\ i <= Len(threads)
  /\ \E t \in {threads[i]}, now2 \in clock..MaxTime :
      LET r == record_play_end(libraryFile, t.id, clock, now2)
      IN /\ libraryFile' = r.file
         /\ clock' = now2
         /\ threads' = RemoveAt(threads, i)
         /\ call' = [CallRecord("record_play_end", t.id, r, libraryFile, clock, now2)
                       EXCEPT !.prevOp = "none", !.prevId = "", !.prevRet = FALSE]
         /\ hist' = [hist EXCEPT !.sessions =
                       Append(@, [id |-> t.id, start |-> t.start, end |-> clock])]
         /\ UNCHANGED <<settingsFile, KNOWN_GAMES, scan, window, exportFile,
                        idle, cacheFiles>>

NextSessions ==
  \/ Tick
  \/ \E game_id \in PlayIds \cup {""}, found \in BOOLEAN : OnLaunch(game_id, found)
  \/ \E i \in 1..MaxLaunches : GameExit(i)

SpecSessions == InitSessions /\ [][NextSessions]_vars

(***************************************************************************)
(* Properties of play sessions (specification SpecSessions)                *)
(***************************************************************************)
\* C26: a launch attempt that fails because the executable is not found
\* leaves the library document unchanged: no play_start remains stored for
\* the game, and its total_play_time and last_played are as before.
C26_FailedLaunchLeavesLibrary ==
  (call.op = "_on_launch" /\ call.id # "" /\ ~ call.raised /\ ~ call.ret) =>
    /\ "play_start" \notin DOMAIN StoredEntry(libraryFile, call.id)
    /\ Get(StoredEntry(libraryFile, call.id), "total_play_time", 0) =
         Get(StoredEntry(call.pre, call.id), "total_play_time", 0)
    /\ Get(StoredEntry(libraryFile, call.id), "last_played", 0) =
         Get(StoredEntry(call.pre, call.id), "last_played", 0)

\* the total length of the finished sessions of an id
RECURSIVE SessionTime(_, _)
SessionTime(sessions, id) ==
  IF sessions = << >> THEN 0
  ELSE (IF Head(sessions).id = id THEN Head(sessions).end - Head(sessions).start ELSE 0)
       + SessionTime(Tail(sessions), id)

\* C28: over any sequence of launches and exits of one game with a
\* non-decreasing clock, total_play_time never falls below what the library
\* held at first and, once every session has ended, equals that plus the
\* sum over all sessions of (end time minus start time): no play time is
\* counted twice or lost, also for overlapping sessions.
C28_PlayTimeIsSessionSum ==
  \A id \in PlayIds :
    LET total == Get(StoredEntry(libraryFile, id), "total_play_time", 0)
    IN /\ total >= hist.base[id]
       /\ (\A i \in 1..Len(threads) : threads[i].id # id) =>
            total = hist.base[id] + SessionTime(hist.sessions, id)

(***************************************************************************)
(* Specification SpecDrop : folders dropped on the window                  *)
(*                                                                         *)
(* A dropped file is [path, local, isdir]: whether get_path gives a path,  *)
(* the path as the sequence of its components ("/" is the empty sequence)  *)
(* and whether it is a directory.  hist counts the reloads the drops have  *)
(* started.                                                                *)
(***************************************************************************)
MaxDrops == 3

\* the string made of the characters cs
StringOf(cs) == CHOOSE str \in DOMAIN CharsTable : CharsTable[str] = cs

\* str.replace(" ", "_")
ReplaceSpaces(cs) == [i \in 1..Len(cs) |-> IF cs[i] = " " THEN "_" ELSE cs[i]]

\* os.path.basename(path)
basename(path) == IF path = << >> THEN "" ELSE path[Len(path)]

\* the path as a string
RECURSIVE PathString(_)
PathString(path) ==
  IF path = << >> THEN "/"
  ELSE IF Len(path) = 1 THEN "/" \o path[1]
  ELSE PathString(SubSeq(path, 1, Len(path) - 1)) \o "/" \o path[Len(path)]

\* folder_name.lower().replace(" ", "_")
DropId(folder_name) == StringOf(ReplaceSpaces(Lower(Chars(folder_name))))

\* the loop of _on_drop that appends to custom_games whatever the ids
\* already there
RECURSIVE DropLoop_NoCheck(_, _, _)
DropLoop_NoCheck(files, custom, existing_ids) ==
  IF files = << >> THEN [custom |-> custom, added |-> 0]
  ELSE LET f == Head(files)
           folder_name == basename(f.path)
           game_id == DropId(folder_name)
       IN IF f.local /\ f.isdir
          THEN LET rest == DropLoop_NoCheck(Tail(files),
                             Append(custom,
                               to_dict(Game(game_id, folder_name, "", "", "", "", "",
                                            PathString(f.path), "", TRUE, "", "", ""))),
                             existing_ids \cup {game_id})
               IN [custom |-> rest.custom, added |-> rest.added + 1]
          ELSE DropLoop_NoCheck(Tail(files), custom, existing_ids)

\* the loop of _on_drop : the custom list after it and the number of
\* records appended
RECURSIVE DropLoop(_, _, _)
DropLoop(files, custom, existing_ids) ==
  IF files = << >> THEN [custom |-> custom, added |-> 0]
  ELSE LET f == Head(files)
           folder_name == basename(f.path)
           game_id == DropId(folder_name)
       IN IF f.local /\ f.isdir /\ game_id \notin existing_ids
          THEN LET rest == DropLoop(Tail(files),
                             Append(custom,
                               to_dict(Game(game_id, folder_name, "", "", "", "", "",
                                            PathString(f.path), "", TRUE, "", "", ""))),
                             existing_ids \cup {game_id})
               IN [custom |-> rest.custom, added |-> rest.added + 1]
          ELSE DropLoop(Tail(files), custom, existing_ids)

\* MainWindow._on_drop up to its call of _load_games, value being
\* [filelist, files]: the library file after it, the handler's return
\* value, the number of records appended, and whether an exception ended it
\* (a library that is no object, a stored custom game without "game_id")
on_drop(file, value) ==
  LET lib == load_library(file)
      custom == Get(lib.doc, "custom_games", << >>)
  IN IF ~ value.filelist
     THEN [raised |-> FALSE, file |-> file, ret |-> FALSE, added |-> 0]
     ELSE IF lib.kind # "dict" \/ \E i \in 1..Len(custom) : "game_id" \notin DOMAIN custom[i]
     THEN [raised |-> TRUE, file |-> file, ret |-> FALSE, added |-> 0]
     ELSE LET r == DropLoop(value.files, custom,
                            { custom[i]["game_id"] : i \in 1..Len(custom) })
          IN [raised |-> FALSE,
              file |-> IF r.added # 0
                       THEN save_library(Put(lib.doc, "custom_games", r.custom))
                       ELSE file,
              ret |-> TRUE, added |-> r.added]

Folder(path) == [path |-> path, local |-> TRUE, isdir |-> TRUE]

\* what is dropped: no file list, an empty list, folders, a regular file and
\* a file without a local path
DropSamples ==
  { [filelist |-> FALSE, files |-> << >>],
    [filelist |-> TRUE, files |-> << >>],
    [filelist |-> TRUE, files |-> << Folder(<<"home", "u", "My Game">>) >>],
    [filelist |-> TRUE, files |-> << Folder(<<"home", "My game">>), Folder(<<"mnt", "my_game">>) >>],
    [filelist |-> TRUE, files |-> << [path |-> <<"home", "u", "dig">>, local |-> TRUE, isdir |-> FALSE],
                                     Folder(<<"home", "u", "The Dig">>),
                                     [path |-> << >>, local |-> FALSE, isdir |-> FALSE] >>],
    [filelist |-> TRUE, files |-> << Folder(<<"DIG">>), Folder(<< >>) >>] }

\* library documents the drops start over, none with a repeated custom id
DropLibrarySamples ==
  { MissingFile, ListFile, DictFile(EmptyDict),
    DictFile([games |-> [dig |-> [favorite |-> TRUE]], custom_games |-> << DroppedGame >>]),
    DictFile([games |-> EmptyDict, custom_games |-> << [name |-> "Other"] >>]) }

NoDrops == [drops |-> 0, scans |-> 0, scansBefore |-> 0]

InitDrop ==
  /\ libraryFile \in DropLibrarySamples
  /\ settingsFile = MissingFile
  /\ KNOWN_GAMES = KnownGamesInit
  /\ clock = 1
  /\ scan = NoScan
  /\ call = [NoCall EXCEPT !.ret = [value |-> FALSE, added |-> 0, files |-> << >>]]
  /\ window = NewWindow(settingsFile)
  /\ exportFile = MissingFile
  /\ threads = NoThreads
  /\ idle = << >>
  /\ cacheFiles = NoCacheFiles
  /\ hist = NoDrops

\* MainWindow._on_drop with the reload that ends it when something has been
\* added; the record of the call keeps what was dropped, the handler's
\* return value and the number of records appended
OnDrop(value) ==
  LET r == on_drop(libraryFile, value)
  IN /\ hist.drops < MaxDrops
     /\ libraryFile' = r.file
     /\ call' = [CallRecord("_on_drop", "",
                            [raised |-> r.raised,
                             ret |-> [value |-> r.ret, added |-> r.added,
                                      files |-> value.files]],
                            libraryFile, clock, clock)
                   EXCEPT !.prevRet = FALSE]
     /\ IF r.added # 0 THEN LoadGames(r.file)
        ELSE UNCHANGED <<KNOWN_GAMES, scan, window>>
     /\ hist' = [drops |-> hist.drops + 1,
                 scans |-> IF r.added # 0 THEN hist.scans + 1 ELSE hist.scans,
                 scansBefore |-> hist.scans]
     /\ UNCHANGED <<settingsFile, clock, exportFile, threads, idle, cacheFiles>>

NextDrop == \E value \in DropSamples : OnDrop(value)

SpecDrop == InitDrop /\ [][NextDrop]_vars

(***************************************************************************)
(* Properties of folder drops (specification SpecDrop)                     *)
(***************************************************************************)
\* the ids of the custom games a library file stores
StoredCustomIds(file) ==
  { StoredCustom(file)[i]["game_id"] :
      i \in { j \in 1..Len(StoredCustom(file)) : "game_id" \in DOMAIN StoredCustom(file)[j] } }

\* the folders among the dropped files
DroppedFolders(files) == { files[i] : i \in { j \in 1..Len(files) : files[j].local /\ files[j].isdir } }

\* C30: after any sequence of folder drops custom_games holds at most one
\* entry per game_id, the id of a dropped folder being its name lower-cased
\* with spaces replaced by underscores, and every dropped folder has its
\* entry; a drop in which every folder maps to an id already among the
\* custom games adds nothing, does not write library.json and does not
\* start a reload.
C30_DropsAddOncePerId ==
  /\ UniqueCustomIds(libraryFile)
  /\ (call.op = "_on_drop" /\ ~ call.raised) =>
       /\ \A f \in DroppedFolders(call.ret.files) :
            \E i \in 1..Len(StoredCustom(libraryFile)) :
              /\ StoredCustom(libraryFile)[i]["game_id"]
                   = StringOf(ReplaceSpaces(Lower(Chars(basename(f.path)))))
              /\ \A c \in DOMAIN Chars(StoredCustom(libraryFile)[i]["game_id"]) :
                   LET ch == Chars(StoredCustom(libraryFile)[i]["game_id"])[c]
                   IN ch # " " /\ ~ (CharCode[ch] >= 65 /\ CharCode[ch] <= 90)
       /\ (\A f \in DroppedFolders(call.ret.files) :
             DropId(basename(f.path)) \in StoredCustomIds(call.pre)) =>
            /\ call.ret.added = 0
            /\ libraryFile = call.pre
            /\ hist.scans = hist.scansBefore

\* a drop of two folders with one id into a library that holds a custom
\* game has added one entry, and a later drop of a known folder has added
\* nothing to a library of three custom games
C30_Witness ==
  /\ call.op = "_on_drop"
  /\ ~ call.raised
  /\ Len(call.ret.files) = 2
  /\ DroppedFolders(call.ret.files) # {}
  /\ \A f \in DroppedFolders(call.ret.files) : DropId(basename(f.path)) \in StoredCustomIds(call.pre)
  /\ StoredCustomIds(libraryFile) = {"my_game", "dig", ""}
  /\ Len(StoredCustom(libraryFile)) = 3
  /\ hist.scans = 1
  /\ hist.drops = 2

(***************************************************************************)
(* Specification SpecCache : the asset caches                              *)
(*                                                                         *)
(* cacheFiles maps the path of every file under the cache directory to     *)
(* [dir, content].  A fetch gets the outcome of its network request as     *)
(* net = [kind, data]: kind "error" (urlopen raises), "readfail"           *)
(* (resp.read raises) or "ok"; data is "" (nothing usable), "small" (at    *)
(* most 1000 bytes) or "large".  cb tells whether a callback is given; the *)
(* callbacks of the program (GameCard._on_icon_loaded, _on_wiki of         *)
(* DetailPanel.show_game) return normally.  A result is [none, value].     *)
(* hist is the record of the latest call.                                  *)
(***************************************************************************)
None == [none |-> TRUE, value |-> ""]
Some(v) == [none |-> FALSE, value |-> v]

\* "if callback: callback(v)" : the calls made
Callback(cb, v) == IF cb THEN << v >> ELSE << >>

CacheFile(dir, content) == [dir |-> dir, content |-> content]

\* get_icons_dir() / f"{game_id}.png"
IconPath(game_id) == "icons/" \o game_id \o ".png"

\* title.replace("/", "_").replace(" ", "_")
SafeName(cs) == [i \in 1..Len(cs) |-> IF cs[i] \in {"/", " "} THEN "_" ELSE cs[i]]

\* get_wiki_dir() / f"{safe_name}.txt"
WikiPath(title) == "wiki/" \o StringOf(SafeName(Chars(title))) \o ".txt"

\* get_covers_dir() / f"{game_id}_{source}.jpg"
CoverPath(game_id, source) == "covers/" \o game_id \o "_" \o source \o ".jpg"

\* get_screenshots_dir() / f"{game_id}_{source}.jpg"
ScreenshotPath(game_id, source) == "screenshots/" \o game_id \o "_" \o source \o ".jpg"

\* the outcome of a fetch: the files after it, the value returned, the
\* callback calls made, the number of network requests issued and the
\* paths written
Fetched(files, ret, callbacks, requests, wrote) ==
  [raised |-> FALSE, files |-> files, ret |-> ret, callbacks |-> callbacks,
   requests |-> requests, wrote |-> wrote]

\* fetch_wiki_extract
fetch_wiki_extract(files, title, cb, net) ==
  LET cache_path == WikiPath(title)
  IN IF cache_path \in DOMAIN files
     THEN Fetched(files, Some(files[cache_path].content),
                  Callback(cb, Some(files[cache_path].content)), 0, {})
     ELSE IF net.kind = "ok" /\ net.data # ""
     THEN Fetched(Put(files, cache_path, CacheFile("wiki", net.data)),
                  Some(net.data), Callback(cb, Some(net.data)), 1, {cache_path})
     ELSE Fetched(files, Some(""), Callback(cb, Some("")), 1, {})

\* download_icon without the callback in its except clause
download_icon_SilentFailure(files, game_id, cb, net) ==
  LET dest == IconPath(game_id)
  IN IF dest \in DOMAIN files
     THEN Fetched(files, Some(dest), Callback(cb, Some(dest)), 0, {})
     ELSE IF net.kind = "error"
     THEN Fetched(files, None, << >>, 1, {})
     ELSE IF net.kind = "readfail"
     THEN Fetched(Put(files, dest, CacheFile("icons", "")), None, << >>, 1, {dest})
     ELSE Fetched(Put(files, dest, CacheFile("icons", net.data)),
                  Some(dest), Callback(cb, Some(dest)), 1, {dest})

\* download_icon without the test "if dest.exists()"
download_icon_AlwaysFetches(files, game_id, cb, net) ==
  LET dest == IconPath(game_id)
  IN IF net.kind = "error"
     THEN Fetched(files, None, Callback(cb, None), 1, {})
     ELSE IF net.kind = "readfail"
     THEN Fetched(Put(files, dest, CacheFile("icons", "")),
                  None, Callback(cb, None), 1, {dest})
     ELSE Fetched(Put(files, dest, CacheFile("icons", net.data)),
                  Some(dest), Callback(cb, Some(dest)), 1, {dest})

\* download_icon : open(dest, "wb") creates the file before resp.read()
download_icon(files, game_id, cb, net) ==
  LET dest == IconPath(game_id)
  IN IF dest \in DOMAIN files
     THEN Fetched(files, Some(dest), Callback(cb, Some(dest)), 0, {})
     ELSE IF net.kind = "error"
     THEN Fetched(files, None, Callback(cb, None), 1, {})
     ELSE IF net.kind = "readfail"
     THEN Fetched(Put(files, dest, CacheFile("icons", "")),
                  None, Callback(cb, None), 1, {dest})
     ELSE Fetched(Put(files, dest, CacheFile("icons", net.data)),
                  Some(dest), Callback(cb, Some(dest)), 1, {dest})

\* the keys of MOBYGAMES_SLUGS among the ids of the model
MOBYGAMES_SLUGS == {"dig", "myst"}

\* the request at the end of fetch_cover_art and fetch_screenshot: data of
\* more than 1000 bytes is stored at dest
FetchImage(files, dir, dest, cb, net) ==
  IF net.kind = "ok" /\ net.data = "large"
  THEN Fetched(Put(files, dest, CacheFile(dir, net.data)),
               Some(dest), Callback(cb, Some(dest)), 1, {dest})
  ELSE Fetched(files, None, Callback(cb, None), 1, {})

\* fetch_cover_art; local tells whether art_local_path holds an image named
\* after the game
fetch_cover_art(files, settings, game_id, source, cb, net, local) ==
  LET dest == CoverPath(game_id, source)
  IN IF dest \in DOMAIN files
     THEN Fetched(files, Some(dest), Callback(cb, Some(dest)), 0, {})
     ELSE IF source = "scummvm"
     THEN download_icon(files, game_id, cb, net)
     ELSE IF source = "local" /\ load_settings(settings).kind # "dict"
     THEN [Fetched(files, None, << >>, 0, {}) EXCEPT !.raised = TRUE]
     ELSE IF source = "local" /\ local
     THEN Fetched(files, Some("art/" \o game_id \o ".jpg"),
                  Callback(cb, Some("art/" \o game_id \o ".jpg")), 0, {})
     ELSE IF \/ source = "mobygames" /\ game_id \in MOBYGAMES_SLUGS
             \/ source = "thegamesdb"
     THEN FetchImage(files, "covers", dest, cb, net)
     ELSE Fetched(files, None, Callback(cb, None), 0, {})

\* fetch_screenshot
fetch_screenshot(files, game_id, source, cb, net) ==
  LET dest == ScreenshotPath(game_id, source)
  IN IF dest \in DOMAIN files
     THEN Fetched(files, Some(dest), Callback(cb, Some(dest)), 0, {})
     ELSE IF source = "scummvm"
     THEN FetchImage(files, "screenshots", dest, cb, net)
     ELSE Fetched(files, None, Callback(cb, None), 0, {})

\* the directories clear_cache removes and creates again
ClearedDirs == {"wiki", "icons", "covers", "screenshots"}

\* clear_cache
clear_cache(files) ==
  [p \in { q \in DOMAIN files : files[q].dir \notin ClearedDirs } |-> files[p]]

\* the assets fetched: icons and screenshots of one game, one title, covers
\* from every source, with and without a MobyGames slug
CacheIds == {"dig"}
WikiTitles == {"The Dig (CD/DOS)"}
CoverKeys ==
  { <<"dig", "scummvm">>, <<"dig", "mobygames">>, <<"my_game", "mobygames">>,
    <<"dig", "igdb">>, <<"dig", "thegamesdb">>, <<"dig", "local">> }
ScreenshotSources == {"scummvm", "mobygames"}

NetError == [kind |-> "error", data |-> ""]
NetOk(data) == [kind |-> "ok", data |-> data]

\* outcomes of the request of download_icon, of fetch_wiki_extract, and of
\* fetch_cover_art and fetch_screenshot
IconNetSamples == {NetError, [kind |-> "readfail", data |-> ""], NetOk("large")}
WikiNetSamples == {NetError, NetOk(""), NetOk("large")}
ImageNetSamples == {NetError, NetOk("small"), NetOk("large")}

NoFetch ==
  [op |-> "none", dest |-> "", pre |-> NoCacheFiles, cb |-> FALSE,
   net |-> NetError, raised |-> FALSE, ret |-> None,
   callbacks |-> << >>, requests |-> 0, wrote |-> {}]

\* the record of a fetch
FetchRecord(op, dest, cb, net, r) ==
  [op |-> op, dest |-> dest, pre |-> cacheFiles, cb |-> cb, net |-> net,
   raised |-> r.raised, ret |-> r.ret, callbacks |-> r.callbacks,
   requests |-> r.requests, wrote |-> r.wrote]

InitCache ==
  /\ libraryFile = MissingFile
  /\ settingsFile \in {MissingFile, ListFile}
  /\ KNOWN_GAMES = KnownGamesInit
  /\ clock = 1
  /\ scan = NoScan
  /\ call = NoCall
  /\ window = NewWindow(MissingFile)
  /\ exportFile = MissingFile
  /\ threads = NoThreads
  /\ idle = << >>
  /\ cacheFiles = NoCacheFiles
  /\ hist = NoFetch

DownloadIcon(game_id, cb, net) ==
  LET r == download_icon(cacheFiles, game_id, cb, net)
  IN /\ cacheFiles' = r.files
     /\ hist' = FetchRecord("download_icon", IconPath(game_id), cb, net, r)
     /\ UNCHANGED <<libraryFile, settingsFile, KNOWN_GAMES, clock, scan, call, window,
                    exportFile, threads, idle>>

FetchWikiExtract(title, cb, net) ==
  LET r == fetch_wiki_extract(cacheFiles, title, cb, net)
  IN /\ cacheFiles' = r.files
     /\ hist' = FetchRecord("fetch_wiki_extract", WikiPath(title), cb, net, r)
     /\ UNCHANGED <<libraryFile, settingsFile, KNOWN_GAMES, clock, scan, call, window,
                    exportFile, threads, idle>>

FetchCoverArt(game_id, source, cb, net, local) ==
  LET r == fetch_cover_art(cacheFiles, settingsFile, game_id, source, cb, net, local)
  IN /\ cacheFiles' = r.files
     /\ hist' = FetchRecord("fetch_cover_art", CoverPath(game_id, source), cb, net, r)
     /\ UNCHANGED <<libraryFile, settingsFile, KNOWN_GAMES, clock, scan, call, window,
                    exportFile, threads, idle>>

FetchScreenshot(game_id, source, cb, net) ==
  LET r == fetch_screenshot(cacheFiles, game_id, source, cb, net)
  IN /\ cacheFiles' = r.files
     /\ hist' = FetchRecord("fetch_screenshot", ScreenshotPath(game_id, source), cb, net, r)
     /\ UNCHANGED <<libraryFile, settingsFile, KNOWN_GAMES, clock, scan, call, window,
                    exportFile, threads, idle>>

\* PreferencesDialog._on_clear_cache
ClearCache ==
  /\ cacheFiles' = clear_cache(cacheFiles)
  /\ hist' = [NoFetch EXCEPT !.op = "clear_cache", !.pre = cacheFiles]
  /\ UNCHANGED <<libraryFile, settingsFile, KNOWN_GAMES, clock, scan, call, window,
                 exportFile, threads, idle>>

NextCache ==
  \/ \E game_id \in CacheIds, cb \in BOOLEAN, net \in IconNetSamples :
       DownloadIcon(game_id, cb, net)
  \/ \E title \in WikiTitles, cb \in BOOLEAN, net \in WikiNetSamples :
       FetchWikiExtract(title, cb, net)
  \/ \E key \in CoverKeys, cb \in BOOLEAN, net \in ImageNetSamples \cup IconNetSamples,
        local \in BOOLEAN :
       /\ local => key[2] = "local"
       /\ net \in (IF key[2] = "scummvm" THEN IconNetSamples ELSE ImageNetSamples)
       /\ FetchCoverArt(key[1], key[2], cb, net, local)
  \/ \E game_id \in CacheIds, source \in ScreenshotSources, cb \in BOOLEAN,
        net \in ImageNetSamples :
       FetchScreenshot(game_id, source, cb, net)
  \/ ClearCache

SpecCache == InitCache /\ [][NextCache]_vars

(***************************************************************************)
(* Properties of the asset caches (specification SpecCache)                *)
(***************************************************************************)
FetchOps == {"download_icon", "fetch_wiki_extract", "fetch_cover_art", "fetch_screenshot"}

\* the latest call was a download_icon whose fetch failed: the icon was not
\* cached and the request or the read of its answer raised
IconFetchFailed ==
  /\ hist.op = "download_icon"
  /\ hist.dest \notin DOMAIN hist.pre
  /\ hist.net.kind \in {"error", "readfail"}

\* C22: download_icon never propagates a failure: when the icon is absent
\* or an error occurs during the fetch it returns None, invokes the
\* callback (when given) exactly once, with None, and raises nothing.
C22_DownloadIconFailure ==
  IconFetchFailed =>
    /\ ~ hist.raised
    /\ hist.ret = None
    /\ hist.requests = 1
    /\ hist.cb => hist.callbacks = << None >>
    /\ ~ hist.cb => hist.callbacks = << >>

C22_Witness ==
  /\ IconFetchFailed
  /\ hist.net.kind = "readfail"
  /\ hist.cb
  /\ hist.callbacks = << None >>
  /\ hist.ret = None
  /\ hist.dest \in DOMAIN cacheFiles
  /\ hist.pre # NoCacheFiles

\* what a fetch returns for a cached file: the text for a wiki extract, the
\* path of the file for an image
CachedValue(op, files, dest) ==
  IF op = "fetch_wiki_extract" THEN Some(files[dest].content) ELSE Some(dest)

\* C23: once a cache file exists for the key of a fetch, the fetch returns
\* the cached value, issues no network request and writes no file; the file
\* of a key keeps its content from its creation until clear_cache removes
\* it, and only clear_cache removes it.
C23_WriteOnceReadIfPresent ==
  /\ (hist.op \in FetchOps /\ hist.dest \in DOMAIN hist.pre) =>
       /\ ~ hist.raised
       /\ hist.ret = CachedValue(hist.op, hist.pre, hist.dest)
       /\ hist.cb => hist.callbacks = << hist.ret >>
       /\ hist.requests = 0
       /\ hist.wrote = {}
       /\ cacheFiles = hist.pre
  /\ hist.op \in FetchOps =>
       /\ DOMAIN hist.pre \subseteq DOMAIN cacheFiles
       /\ \A p \in DOMAIN hist.pre : cacheFiles[p] = hist.pre[p] /\ p \notin hist.wrote
  /\ hist.op = "clear_cache" => cacheFiles = NoCacheFiles

\* a wiki extract, a cover and a half-written icon are cached and the
\* extract has just been fetched again, with a request that would have
\* given another answer
C23_Witness ==
  /\ hist.op = "fetch_wiki_extract"
  /\ hist.dest = "wiki/The_Dig_(CD_DOS).txt"
  /\ hist.dest \in DOMAIN hist.pre
  /\ hist.net = NetOk("")
  /\ hist.ret = Some("large")
  /\ hist.requests = 0
  /\ "covers/dig_thegamesdb.jpg" \in DOMAIN cacheFiles
  /\ IconPath("dig") \in DOMAIN cacheFiles
  /\ cacheFiles[IconPath("dig")].content = ""

(***************************************************************************)
(* Specification SpecRace : library.json under the UI thread and the       *)
(* _wait threads                                                           *)
(*                                                                         *)
(* threads maps each thread to the call it makes: "ui" is the main loop    *)
(* (toggle_favorite of _on_toggle_favorite, or sort_games of               *)
(* _refresh_view), "w1" and "w2" are _wait threads of _on_launch whose     *)
(* game has exited (record_play_end).  A call advances by steps:           *)
(*   start -> open -> dump -> returned   for toggle_favorite and           *)
(*                                       record_play_end: load_library and *)
(*                                       the update of the loaded          *)
(*                                       document, open(p, "w"), json.dump *)
(*                                       and close;                        *)
(*   start -> favs -> non_favs -> returned   for sort_games: sorted(), one *)
(*                                       is_favorite per game in each of   *)
(*                                       the two comprehensions.           *)
(* open(p, "w") empties the file; what json.dump wrote reaches the file    *)
(* when it is closed.  A reader in between finds a file json.load cannot   *)
(* parse.  A write that follows another thread's write into the same       *)
(* opened file leaves the other's tail behind when it is shorter: the      *)
(* lengths are not modelled, both outcomes are.                            *)
(* hist keeps the library file at the start, the threads that have opened  *)
(* library.json for writing and the list given to sort_games.              *)
(***************************************************************************)
ThreadIds == {"ui", "w1", "w2"}

\* a thread that makes no call
NoThread ==
  [op |-> "none", id |-> "", pc |-> "returned", lib |-> EmptyDict, dirty |-> FALSE,
   games |-> << >>, favs |-> << >>, non_favs |-> << >>, i |-> 0]

\* a thread about to call op(id)
CallOf(op, id) == [NoThread EXCEPT !.op = op, !.id = id, !.pc = "start"]

\* the UI thread about to call sort_games(games, "name_asc", True)
SortCallOf(games) == [CallOf("sort_games", "") EXCEPT !.games = games]

\* the games of the window
RaceGames ==
  << Game("dig", "The Dig", "scumm", "", "1995", "LucasArts", "DOS", "", "", TRUE,
          "Adventure", "Excellent", ""),
     Game("my_game", "My Game", "", "", "", "", "", "/home/u/My Game", "", TRUE, "", "", "") >>

\* library.json after both games have been launched at time 1
RaceLibrarySamples ==
  { DictFile([games |-> [dig |-> [favorite |-> TRUE, play_start |-> 1, total_play_time |-> 2],
                         my_game |-> [play_start |-> 1]],
              custom_games |-> << DroppedGame >>]),
    DictFile([games |-> [dig |-> [play_start |-> 1],
                         my_game |-> [favorite |-> TRUE, play_start |-> 1]],
              custom_games |-> << DroppedGame >>]) }

UiCallSamples ==
  { CallOf("toggle_favorite", "dig"), CallOf("toggle_favorite", "my_game"),
    SortCallOf(RaceGames) }

InitRace ==
  /\ libraryFile \in RaceLibrarySamples
  /\ settingsFile = MissingFile
  /\ KNOWN_GAMES = KnownGamesInit
  /\ clock = 2
  /\ scan = NoScan
  /\ call = NoCall
  /\ window = NewWindow(settingsFile)
  /\ exportFile = MissingFile
  /\ \E ui \in UiCallSamples, w2 \in {NoThread, CallOf("record_play_end", "my_game")} :
       threads = [ui |-> ui, w1 |-> CallOf("record_play_end", "dig"), w2 |-> w2]
  /\ idle = << >>
  /\ cacheFiles = NoCacheFiles
  /\ hist = [init |-> libraryFile, writers |-> {}]

\* the document toggle_favorite / record_play_end hands to save_library
\* when load_library has read `file`
UpdatedLibrary(t, file) ==
  IF t.op = "toggle_favorite" THEN toggle_favorite(file, t.id)
  ELSE record_play_end(file, t.id, clock, clock)

\* load_library and the update of the loaded document
Load(t) ==
  /\ threads[t].pc = "start"
  /\ threads[t].op \in {"toggle_favorite", "record_play_end"}
  /\ LET r == UpdatedLibrary(threads[t], libraryFile)
     IN threads' = [threads EXCEPT ![t].pc = IF r.raised THEN "raised" ELSE "open",
                                   ![t].lib = IF r.raised THEN EmptyDict ELSE r.file.doc]
  /\ UNCHANGED <<libraryFile, settingsFile, KNOWN_GAMES, clock, scan, call, window,
                 exportFile, idle, cacheFiles, hist>>

\* open(p, "w") of save_library : the file is emptied
Open(t) ==
  /\ threads[t].pc = "open"
  /\ libraryFile' = GarbageFile
  /\ threads' = [threads EXCEPT ![t].pc = "dump", ![t].dirty = FALSE]
  /\ hist' = [hist EXCEPT !.writers = @ \cup {t}]
  /\ UNCHANGED <<settingsFile, KNOWN_GAMES, clock, scan, call, window,
                 exportFile, idle, cacheFiles>>

\* json.dump and the close of save_library, after which the call returns
Dump(t) ==
  /\ threads[t].pc = "dump"
  /\ libraryFile' \in {save_library(threads[t].lib)}
                        \cup (IF threads[t].dirty THEN {GarbageFile} ELSE {})
  /\ threads' = [u \in ThreadIds |->
                   IF u = t THEN [threads[u] EXCEPT !.pc = "returned", !.dirty = FALSE]
                   ELSE IF threads[u].pc = "dump" THEN [threads[u] EXCEPT !.dirty = TRUE]
                   ELSE threads[u]]
  /\ UNCHANGED <<settingsFile, KNOWN_GAMES, clock, scan, call, window,
                 exportFile, idle, cacheFiles, hist>>

\* sort_games up to "if favorites_first" : result = sorted(games, ...)
SortStart(t) ==
  /\ threads[t].pc = "start"
  /\ threads[t].op = "sort_games"
  /\ threads' = [threads EXCEPT ![t].pc = "favs", ![t].i = 1,
                                ![t].games = SortedBy(threads[t].games, "name_asc", FALSE)]
  /\ UNCHANGED <<libraryFile, settingsFile, KNOWN_GAMES, clock, scan, call, window,
                 exportFile, idle, cacheFiles, hist>>

\* one round of "favs = [g for g in result if is_favorite(g.game_id)]"
SortFavs(t) ==
  /\ threads[t].pc = "favs"
  /\ LET th == threads[t]
         r == is_favorite(libraryFile, th.games[th.i].game_id)
     IN threads' =
          IF th.i > Len(th.games) THEN [threads EXCEPT ![t].pc = "non_favs", ![t].i = 1]
          ELSE IF r.raised THEN [threads EXCEPT ![t].pc = "raised"]
          ELSE [threads EXCEPT ![t].i = th.i + 1,
                               ![t].favs = IF r.ret THEN Append(th.favs, th.games[th.i])
                                           ELSE th.favs]
  /\ UNCHANGED <<libraryFile, settingsFile, KNOWN_GAMES, clock, scan, call, window,
                 exportFile, idle, cacheFiles, hist>>

\* one round of "non_favs = [g for g in result if not is_favorite(g.game_id)]";
\* after the last one sort_games returns favs + non_favs
SortNonFavs(t) ==
  /\ threads[t].pc = "non_favs"
  /\ LET th == threads[t]
         r == is_favorite(libraryFile, th.games[th.i].game_id)
     IN threads' =
          IF th.i > Len(th.games) THEN [threads EXCEPT ![t].pc = "returned"]
          ELSE IF r.raised THEN [threads EXCEPT ![t].pc = "raised"]
          ELSE [threads EXCEPT ![t].i = th.i + 1,
                               ![t].non_favs = IF r.ret THEN th.non_favs
                                               ELSE Append(th.non_favs, th.games[th.i])]
  /\ UNCHANGED <<libraryFile, settingsFile, KNOWN_GAMES, clock, scan, call, window,
                 exportFile, idle, cacheFiles, hist>>

NextRace ==
  \E t \in ThreadIds :
    \/ Load(t)
    \/ Open(t)
    \/ Dump(t)
    \/ SortStart(t)
    \/ SortFavs(t)
    \/ SortNonFavs(t)

SpecRace == InitRace /\ [][NextRace]_vars

(***************************************************************************)
(* Properties of library.json under threads (specification SpecRace)       *)
(***************************************************************************)
\* the threads that hold library.json open for writing
Writing == { t \in ThreadIds : threads[t].pc = "dump" }

\* C21: no worker thread mutates shared state: every write to library.json
\* is made by the UI thread, and never by two threads at a time.
C21_OnlyUiThreadWrites ==
  /\ hist.writers \subseteq {"ui"}
  /\ Cardinality(Writing) <= 1

\* every call has returned
AllReturned == \A t \in ThreadIds : threads[t].pc = "returned"

\* library.json holds the effect of the call of thread t on the library as
\* it was at the start: the flag flipped, or the session closed at the time
\* the call read
EffectStored(t) ==
  LET before == StoredEntry(hist.init, threads[t].id)
      after == StoredEntry(libraryFile, threads[t].id)
  IN /\ threads[t].op = "toggle_favorite" =>
          Get(after, "favorite", FALSE) = ~ Get(before, "favorite", FALSE)
     /\ threads[t].op = "record_play_end" =>
          /\ "play_start" \notin DOMAIN after
          /\ Get(after, "last_played", 0) = clock
          /\ Get(after, "total_play_time", 0) =
               Get(before, "total_play_time", 0) + (clock - before["play_start"])

\* C24: no library update is lost under interleaving: once toggle_favorite
\* on the UI thread and record_play_end on the _wait threads have all
\* returned, library.json contains the effect of every one of them.
C24_NoLostUpdate ==
  AllReturned => \A t \in ThreadIds : EffectStored(t)

\* C25: sort_games returns a permutation of its input, also when
\* library.json is rewritten by a concurrent record_play_end while the
\* favorites partition reads it.
C25_SortIsPermutation ==
  (threads["ui"].op = "sort_games" /\ threads["ui"].pc = "returned") =>
    IsPermutation(threads["ui"].favs \o threads["ui"].non_favs, RaceGames)

(***************************************************************************)
(* Specification SpecScans : overlapping reloads of the catalog            *)
(*                                                                         *)
(* threads holds, in the order of their start, the do_load threads of      *)
(* _load_games: pc "started", "loaded" (get_all_games has read             *)
(* library.json and waits for the prober) or "done" (get_all_games has     *)
(* returned and _on_games_loaded is queued with its result).  The steps of *)
(* get_all_games after the load are taken at once.  idle is the queue of   *)
(* GLib.idle_add.                                                         *)
(***************************************************************************)
MaxScans == 3

\* the do_load thread just started
StartedScan == [pc |-> "started", file |-> MissingFile, raised |-> FALSE, games |-> << >>]

ScanLibrarySamples ==
  { MissingFile,
    DictFile([games |-> [dig |-> [favorite |-> TRUE]], custom_games |-> << DroppedGame >>]) }

\* MainWindow.__init__ has called _load_games
InitScans ==
  /\ libraryFile \in ScanLibrarySamples
  /\ settingsFile = MissingFile
  /\ KNOWN_GAMES = KnownGamesInit
  /\ clock = 1
  /\ scan = NoScan
  /\ call = NoCall
  /\ window = NewWindow(settingsFile)
  /\ exportFile = MissingFile
  /\ threads = << StartedScan >>
  /\ idle = << >>
  /\ cacheFiles = NoCacheFiles
  /\ hist = NoHist

\* MainWindow._on_scan : _load_games starts a thread
OnScanStart ==
  /\ Len(threads) < MaxScans
  /\ threads' = Append(threads, StartedScan)
  /\ UNCHANGED <<libraryFile, settingsFile, KNOWN_GAMES, clock, scan, call, window,
                 exportFile, idle, cacheFiles, hist>>

\* MainWindow._on_drop : when something has been added the library is saved
\* and _load_games starts a thread
OnDropStart(value) ==
  LET r == on_drop(libraryFile, value)
  IN /\ Len(threads) < MaxScans
     /\ libraryFile' = r.file
     /\ threads' = IF r.added # 0 THEN Append(threads, StartedScan) ELSE threads
     /\ UNCHANGED <<settingsFile, KNOWN_GAMES, clock, scan, call, window,
                    exportFile, idle, cacheFiles, hist>>

\* get_all_games in thread i : load_library
ScanLoad(i) ==
  /\ i <= Len(threads)
  /\ threads[i].pc = "started"
  /\ threads' = [threads EXCEPT ![i].pc = "loaded", ![i].file = libraryFile]
  /\ UNCHANGED <<libraryFile, settingsFile, KNOWN_GAMES, clock, scan, call, window,
                 exportFile, idle, cacheFiles, hist>>

\* get_all_games in thread i from the prober on, then
\* GLib.idle_add(self._on_games_loaded, games); a thread in which
\* get_all_games raises ends without queueing anything
ScanFinish(i) ==
  /\ i <= Len(threads)
  /\ threads[i].pc = "loaded"
  /\ LET r == get_all_games(KNOWN_GAMES, threads[i].file, ImportProber)
     IN /\ threads' = [threads EXCEPT ![i].pc = "done", ![i].raised = r.raised,
                                      ![i].games = r.games]
        /\ KNOWN_GAMES' = SubSeq(r.known, 1, Len(KNOWN_GAMES))
        /\ idle' = IF r.raised THEN idle ELSE Append(idle, r.games)
  /\ UNCHANGED <<libraryFile, settingsFile, clock, scan, call, window,
                 exportFile, cacheFiles, hist>>

\* the main loop runs the first queued _on_games_loaded
OnGamesLoadedIdle ==
  /\ idle # << >>
  /\ window' = apply_filters_and_sort([window EXCEPT !._games = Head(idle)], libraryFile).window
  /\ idle' = Tail(idle)
  /\ UNCHANGED <<libraryFile, settingsFile, KNOWN_GAMES, clock, scan, call,
                 exportFile, threads, cacheFiles, hist>>

ScanDropSamples ==
  { [filelist |-> TRUE, files |-> << Folder(<<"home", "u", "My Game">>) >>],
    [filelist |-> TRUE, files |-> << Folder(<<"home", "u", "The Dig">>) >>] }

NextScans ==
  \/ OnScanStart
  \/ \E value \in ScanDropSamples : OnDropStart(value)
  \/ \E i \in 1..MaxScans : ScanLoad(i)
  \/ \E i \in 1..MaxScans : ScanFinish(i)
  \/ OnGamesLoadedIdle

SpecScans == InitScans /\ [][NextScans]_vars

(***************************************************************************)
(* Properties of overlapping reloads (specification SpecScans)             *)
(***************************************************************************)
\* every do_load thread has ended with a result and the queue is empty
AllScansCompleted ==
  /\ idle = << >>
  /\ \A i \in 1..Len(threads) : threads[i].pc = "done" /\ ~ threads[i].raised

\* C27: when several scans are started and their threads finish in any
\* order, the catalog the window holds after all of them have completed is
\* the result of the scan that was started last.
C27_LastStartedScanWins ==
  AllScansCompleted => window._games = threads[Len(threads)].games

====
